---- MODULE Spec2Model ----
(***************************************************************************)
(* A model of taciturn's TacitPromise (src/src/TacitPromise.ts): a promise *)
(* that threads a context object through its chain, and its array          *)
(* operators.  Two state machines share the module:                        *)
(*                                                                         *)
(*   SpecMap    one call of an array-mapping stage (mapcar, and map with   *)
(*              a concurrency option) over one input, with the caller's fn  *)
(*              settling its invocations in any order;                     *)
(*   SpecChain  a linear chain create/begin(...).then(...).then(...) with  *)
(*              one context object per future.                             *)
(***************************************************************************)
EXTENDS Integers, Sequences, FiniteSets, TLC

\* ------------------------------------------------------------------ bounds
MaxLen == 3
MaxConc == 3
MaxItem == 2

\* ----------------------------------------------------------------- helpers
Min(a, b) == IF a <= b THEN a ELSE b

Max(a, b) == IF a >= b THEN a ELSE b

SeqsUpTo(S, n) == UNION {[1..k -> S] : k \in 0..n}

Items == 1..MaxItem

\* The current value an array stage receives: an array, or something else
\* (the number 42 of the tests).
ArrayValue(s) == [isArray |-> TRUE, items |-> s]

\* A value that is no array: a scalar (no elements), or a collection that is
\* not an Array (a Set, a string) whose elements a loop could still visit.
NotArrayValue(s) == [isArray |-> FALSE, items |-> s]

\* A type check that lets every value through.
IsArrayUnchecked(v) == TRUE

\* Array.isArray(value)
IsArray(v) == v.isArray

\* options.concurrency: omitted, or a number.
ConcOmitted == [given |-> FALSE, n |-> 0]

ConcOf(c) == [given |-> TRUE, n |-> c]

\* Rejection reasons.  msg is the Error's message; idx the index of the fn
\* invocation the reason comes from (0: the operator itself raised it).
NoReason == [msg |-> "", idx |-> 0]

\* What fn(item, index, ctx) settles with, one distinct value per (item, index).
FnResult(item, i) == <<item, i>>

\* The reason fn's invocation for index i rejects (or throws) with.
FnReason(i) == [msg |-> "fn failed", idx |-> i]

EmptySlot == <<>>

\* =================================================================== chain
MaxStages == 3
MaxLate == 1

VARIABLES
  len,      \* futures of the chain so far; 1 is the one create/begin made
  ref,      \* per future: the context object it holds (_context, contextRef)
  heap,     \* per context object: its fields
  state,    \* per future: "pending" | "fulfilled" | "rejected"
  payload,  \* per future: the settled __value or __reason
  onF,      \* per future: then() was given an onFulfilled
  onR,      \* per future: then() was given an onRejected
  pc,       \* per future: "waiting" for the receiver | "done" (callback ran)
  how,      \* per future: "none" | "forwarded" | "returned" | "threw" | "adopted"
  lateWrites,  \* writes made so far through a kept context handle
  lateCalls,   \* resolve/reject calls made so far on a future already settled
  invoked,  \* history: times a handler of the future was invoked
  raised,   \* history: what the handler threw, or its async callback failed with
  lastw,    \* history: per key, the value last written by a running handler
  stray     \* history: per key, written through a handle after its future settled

chainVars == <<len, ref, heap, state, payload, onF, onR, pc, how, lateWrites,
               lateCalls, invoked, raised, lastw, stray>>

Stages == 1..MaxStages

\* Context objects: 0 is the caller's initialContext, s the one future s makes.
Objects == 0..MaxStages

Keys == {"x", "y"}

\* A field's value; "absent": the object has no such field.
FieldVals == {"absent", "c1", "c2"}

Contexts == [Keys -> FieldVals]

EmptyContext == [k \in Keys |-> "absent"]

\* The initialContext objects callers pass: {}, { x: c1 }, { x: c2 }.
InitialContexts == {c \in Contexts : c["y"] = "absent"}

\* Values a future fulfils with, and reasons it rejects with.
Vals == {"undefined", "v1"}

Errs == {"e1", "e2"}

\* No chain: the state of the chain's variables while an array stage is studied.
ChainIdle ==
  /\ len = 0
  /\ ref = [s \in Stages |-> 0]
  /\ heap = [o \in Objects |-> EmptyContext]
  /\ state = [s \in Stages |-> "pending"]
  /\ payload = [s \in Stages |-> "none"]
  /\ onF = [s \in Stages |-> FALSE]
  /\ onR = [s \in Stages |-> FALSE]
  /\ pc = [s \in Stages |-> "waiting"]
  /\ how = [s \in Stages |-> "none"]
  /\ lateWrites = 0
  /\ lateCalls = 0
  /\ invoked = [s \in Stages |-> 0]
  /\ raised = [s \in Stages |-> "none"]
  /\ lastw = EmptyContext
  /\ stray = [k \in Keys |-> FALSE]

\* ------------------------------------------------------------ combinators
VARIABLES
  op,        \* per future: the method that made it ("then", "tap", "map", ...)
  arg,       \* per future: the key given to tap / focus
  phase,     \* per future: where its async handler stands ("none" | "pred" | "fn" | "end")
  cond,      \* per future: when: what the predicate settled with ("none" | "true" | "false")
  fnCalls,   \* per future: when: times the side-effect fn was invoked
  produced,  \* per future: history: what the caller's fn produced first
  carried,   \* per future: the context of the contextual future its handler returned
  got,       \* what getValue() on the last future delivered to its caller
  unhandled, \* what the runtime reported as an unhandled rejection
  label,     \* per future: tee: the label given ("" when omitted)
  fields,    \* per future: tee: the fields given
  sunk,      \* per future: tee: what its sink received, and how often
  awaited,   \* what awaiting the last future itself delivered
  fnInv,     \* per future: filter / mapcar on an array: the state of fn's
             \* invocation for every element ("idle" | "pending" | "fulfilled" | "rejected")
  views      \* what getContext() and toObject() on the last future delivered

\* The arguments of tee, its sink, and the caller that awaits a future.
obsVars == <<label, fields, sunk, awaited, fnInv, views>>

opVars == <<op, arg, phase, cond, fnCalls, produced, carried, got, unhandled, obsVars>>

\* The handler returned no contextual future.
NoCarried == [is |-> FALSE, fields |-> EmptyContext]

\* tee's fields argument: null or undefined, or an array of keys.
NoFields == [given |-> FALSE, keys |-> {}]

\* The sink of a tee was not called.
Unsunk == [calls |-> 0, label |-> "", value |-> "none", context |-> EmptyContext]

\* Nothing delivered / reported yet.  A delivery names how it settled, the
\* value or reason, and whether that is the bare value or the internal object
\* { __value | __reason, __context } holding it.
Nothing == [state |-> "none", inner |-> "none", tagged |-> FALSE]

\* Neither getContext() nor toObject() has delivered.
NoViews == [context |-> Nothing, object |-> Nothing]

\* No combinator in play: the state of these variables while plain chains and
\* array stages are studied.
OpsIdle ==
  /\ op = [s \in Stages |-> "none"]
  /\ arg = [s \in Stages |-> ""]
  /\ phase = [s \in Stages |-> "none"]
  /\ cond = [s \in Stages |-> "none"]
  /\ fnCalls = [s \in Stages |-> 0]
  /\ produced = [s \in Stages |-> "none"]
  /\ carried = [s \in Stages |-> NoCarried]
  /\ got = Nothing
  /\ unhandled = Nothing
  /\ label = [s \in Stages |-> ""]
  /\ fields = [s \in Stages |-> NoFields]
  /\ sunk = [s \in Stages |-> Unsunk]
  /\ awaited = Nothing
  /\ fnInv = [s \in Stages |-> <<>>]
  /\ views = NoViews

\* ============================================================ array stage
VARIABLES
  mOp,          \* "mapcar" | "map": the operator called
  mInput,       \* the receiver's value
  mConc,        \* map's options.concurrency
  mPolicy,      \* map, on failure: "immediate" | "drain"
  mPc,          \* "ready" (handler not yet run) | "running"
  fanin,        \* "none" | "all" (Promise.all) | "window" (bounded mapper)
  inv,          \* per index: "idle" | "pending" | "fulfilled" | "rejected"
  slots,        \* the output slot array
  cursor,       \* bounded mapper: indices dispatched so far
  active,       \* bounded mapper: invocations in flight
  failure,      \* bounded mapper: the recorded failure
  mState,       \* the stage's future: "pending" | "fulfilled" | "rejected"
  mResult,      \* its value once fulfilled
  mReason,      \* its reason once rejected
  dispatched,   \* history: the indices fn was invoked with, in order
  maxInFlight,  \* history: the most invocations ever pending at once
  firstRej,     \* history: the first rejection observed
  settled       \* history: the indices in the order their invocations settled

mapVars == <<mOp, mInput, mConc, mPolicy, mPc, fanin, inv, slots, cursor,
             active, failure, mState, mResult, mReason, dispatched,
             maxInFlight, firstRej, settled>>

vars == <<mapVars, chainVars, opVars>>

N == Len(mInput.items)

InFlight == Cardinality({i \in 1..N : inv[i] = "pending"})

NoRej == [seen |-> FALSE, reason |-> NoReason]

MapInit ==
  /\ mOp \in {"mapcar", "map"}
  /\ mInput \in {ArrayValue(s) : s \in SeqsUpTo(Items, MaxLen)}
                \cup {NotArrayValue(<<>>), NotArrayValue(<<1, 2>>)}
  /\ mConc \in {ConcOmitted} \cup {ConcOf(c) : c \in 0..MaxConc}
  /\ mPolicy \in {"immediate", "drain"}
  /\ (mOp = "mapcar" => mConc = ConcOmitted /\ mPolicy = "immediate")
  /\ mPc = "ready"
  /\ fanin = "none"
  /\ inv = [i \in 1..N |-> "idle"]
  /\ slots = [i \in 1..N |-> EmptySlot]
  /\ cursor = 0
  /\ active = 0
  /\ failure = NoRej
  /\ mState = "pending"
  /\ mResult = <<>>
  /\ mReason = NoReason
  /\ dispatched = <<>>
  /\ maxInFlight = 0
  /\ firstRej = NoRej
  /\ settled = <<>>

\* A promise settles once: a resolve or reject after the first is ignored.
\* A future whose last resolve or reject wins.
SettleLast(cur, new) == new

\* cur and new are <<state, value, reason>>.
SettleOnce(cur, new) == IF cur[1] = "pending" THEN new ELSE cur

\* resolve(v) / reject(r) on the stage's future.
StageResolve(v) ==
  LET f == SettleOnce(<<mState, mResult, mReason>>, <<"fulfilled", v, mReason>>)
  IN mState' = f[1] /\ mResult' = f[2] /\ mReason' = f[3]

StageReject(r) ==
  LET f == SettleOnce(<<mState, mResult, mReason>>, <<"rejected", mResult, r>>)
  IN mState' = f[1] /\ mResult' = f[2] /\ mReason' = f[3]

StageKeep == UNCHANGED <<mState, mResult, mReason>>

\* The indices k..1, last first.
Downto(k) == [i \in 1..k |-> k + 1 - i]

\* The indices 1..k in order.
Upto(k) == [i \in 1..k |-> i]

Record(rej, i) == IF rej.seen THEN rej ELSE [seen |-> TRUE, reason |-> FnReason(i)]

\* ------------------------------------------------------------- mapcar
\* The message of mapcar's type check.
MapcarTypeError == [msg |-> "mapcar requires an array value", idx |-> 0]

\* Results collected in the order the invocations complete.
AllSlotByCompletion(i, nDone) == nDone + 1

\* Promise.all writes an element's value under the element's own index.
AllSlot(i, nDone) == i

\* A value.map whose loop goes on after the call for index k threw.
LoopGoesOn(i, k) == IF i = k THEN "rejected" ELSE "pending"

\* value.map((item, i) => fn(item, i, ctx)) calls fn for the indices in order
\* and ends at the first call that throws, at index k: the calls before it
\* have started, the calls after it are never made.
AfterThrow(i, k) == IF i < k THEN "pending" ELSE IF i = k THEN "rejected" ELSE "idle"

\* mapcar's handler: the type check, then value.map(fn) invokes fn for every
\* index in order; an fn that throws synchronously at index k ends the loop
\* (and the async handler rejects); otherwise Promise.all collects.
\* k = N + 1: no invocation throws.
Mapcar ==
  /\ mOp = "mapcar" /\ mPc = "ready"
  /\ mPc' = "running"
  /\ UNCHANGED <<mOp, mInput, mConc, mPolicy, slots, cursor, active, failure>>
  /\ UNCHANGED <<chainVars, opVars>>
  /\ IF ~IsArray(mInput)
       THEN /\ StageReject(MapcarTypeError)
            /\ UNCHANGED <<fanin, inv, dispatched, maxInFlight, firstRej, settled>>
       ELSE \E k \in 1..(N + 1) :
            /\ dispatched' = Upto(Min(k, N))
            /\ inv' = [i \in 1..N |-> AfterThrow(i, k)]
            /\ maxInFlight' = Min(k, N)
            /\ settled' = IF k <= N THEN <<k>> ELSE <<>>
            /\ IF k <= N
                 THEN /\ fanin' = "none"
                      /\ firstRej' = Record(firstRej, k)
                      /\ StageReject(FnReason(k))
                 ELSE /\ fanin' = "all"
                      /\ firstRej' = firstRej
                      /\ IF N = 0 THEN StageResolve(<<>>) ELSE StageKeep

\* One invocation of fn settles, and Promise.all (if it was reached) reacts.
MapcarSettle(i, ok) ==
  /\ mOp = "mapcar" /\ mPc = "running"
  /\ inv[i] = "pending"
  /\ inv' = [inv EXCEPT ![i] = IF ok THEN "fulfilled" ELSE "rejected"]
  /\ firstRej' = IF ok THEN firstRej ELSE Record(firstRej, i)
  /\ settled' = Append(settled, i)
  /\ UNCHANGED <<chainVars, opVars>>
  /\ UNCHANGED <<mOp, mInput, mConc, mPolicy, mPc, fanin, cursor, active,
                 failure, dispatched, maxInFlight>>
  /\ IF fanin # "all"
       THEN UNCHANGED slots /\ StageKeep
       ELSE IF ok
         THEN LET nDone == Cardinality({j \in 1..N : slots[j] # EmptySlot})
                  s == [slots EXCEPT ![AllSlot(i, nDone)] = FnResult(mInput.items[i], i)]
              IN /\ slots' = s
                 /\ IF \A j \in 1..N : inv'[j] = "fulfilled"
                      THEN StageResolve(s)
                      ELSE StageKeep
         ELSE /\ UNCHANGED slots
              /\ StageReject(FnReason(i))

\* --------------------------------------------- map(fn, { concurrency })
\* The message of map's type check.
MapTypeError == [msg |-> "map requires an array value", idx |-> 0]

\* A first window that ignores the limit.
InitialFillAll(n, conc) == n

\* A first window that always leaves the last index for later.
InitialFillShort(n, conc) == IF conc.given THEN Min(conc.n, Max(n - 1, 0)) ELSE n

\* The first window: every index when concurrency is omitted; otherwise
\* dispatch while active < concurrency and unprocessed input remains.
InitialFill(n, conc) == IF conc.given THEN Min(conc.n, n) ELSE n

\* A window that is refilled after a failure too.
RefillAlways(cur, n, failed) == IF cur < n THEN 1 ELSE 0

\* A window that is never refilled.
RefillNever(cur, n, failed) == 0

\* After a successful settlement: the next pending index is dispatched if one
\* remains, and none once a failure has been recorded.
Refill(cur, n, failed) == IF ~failed /\ cur < n THEN 1 ELSE 0

\* The slot a result is written to: the one matching its original index.
WindowSlot(i, nDone) == i

\* When the recorded failure becomes the stage's rejection: at once, or (the
\* other reading) once the invocations already dispatched have settled.
Surfaces(policy, act) == policy = "immediate" \/ act = 0

\* Completion noticed only when an invocation settles: never for no input.
CompleteAfterSettle(cur, act, n) == cur = n /\ act = 0 /\ n > 0

\* Every index has been dispatched and has settled.
Complete(cur, act, n) == cur = n /\ act = 0

\* map's handler: the type check, then the first window; with nothing to
\* dispatch (the empty input) the mapping is complete at once.
Map ==
  /\ mOp = "map" /\ mPc = "ready"
  /\ mPc' = "running"
  /\ UNCHANGED <<mOp, mInput, mConc, mPolicy, slots, failure, firstRej, settled>>
  /\ UNCHANGED <<chainVars, opVars>>
  /\ IF ~IsArray(mInput)
       THEN /\ StageReject(MapTypeError)
            /\ UNCHANGED <<fanin, inv, cursor, active, dispatched, maxInFlight>>
       ELSE LET d == InitialFill(N, mConc)
            IN /\ fanin' = "window"
               /\ cursor' = d
               /\ active' = d
               /\ inv' = [i \in 1..N |-> IF i <= d THEN "pending" ELSE "idle"]
               /\ dispatched' = Upto(d)
               /\ maxInFlight' = d
               /\ IF Complete(d, d, N) THEN StageResolve(slots) ELSE StageKeep

\* One invocation settles: its slot is written, the window is refilled, and
\* the stage settles when the mapping is complete or a failure surfaces.
MapSettle(i, ok) ==
  /\ mOp = "map" /\ mPc = "running"
  /\ inv[i] = "pending"
  /\ LET fail == IF ok THEN failure ELSE Record(failure, i)
         d == IF ok THEN Refill(cursor, N, fail.seen) ELSE 0
         act == active - 1 + d
         nDone == Cardinality({j \in 1..N : slots[j] # EmptySlot})
         s == IF ok THEN [slots EXCEPT ![WindowSlot(i, nDone)] = FnResult(mInput.items[i], i)]
                    ELSE slots
     IN /\ inv' = [j \in 1..N |->
                     IF j = i THEN (IF ok THEN "fulfilled" ELSE "rejected")
                     ELSE IF j > cursor /\ j <= cursor + d THEN "pending"
                     ELSE inv[j]]
        /\ cursor' = cursor + d
        /\ active' = act
        /\ failure' = fail
        /\ firstRej' = IF ok THEN firstRej ELSE Record(firstRej, i)
        /\ settled' = Append(settled, i)
        /\ dispatched' = dispatched \o [k \in 1..d |-> cursor + k]
        /\ maxInFlight' = Max(maxInFlight, act)
        /\ slots' = s
        /\ IF fail.seen
             THEN IF Surfaces(mPolicy, act)
                    THEN StageReject(fail.reason) ELSE StageKeep
             ELSE IF Complete(cursor + d, act, N)
                    THEN StageResolve(s) ELSE StageKeep
  /\ UNCHANGED <<mOp, mInput, mConc, mPolicy, mPc, fanin>>
  /\ UNCHANGED <<chainVars, opVars>>

MapcarSettles == \E i \in 1..N, ok \in BOOLEAN : MapcarSettle(i, ok)

MapSettles == \E i \in 1..N, ok \in BOOLEAN : MapSettle(i, ok)

MapNext ==
  \/ Mapcar
  \/ Map
  \/ MapcarSettles
  \/ MapSettles

InitMap == MapInit /\ ChainIdle /\ OpsIdle

SpecMap == InitMap /\ [][MapNext]_vars

\* ------------------------------------------------- claims: array stage
\* map(fn, { concurrency: c }) on an array of length n with 1 <= c <= n.
BoundedCase ==
  /\ mOp = "map" /\ IsArray(mInput) /\ mConc.given
  /\ N >= 1 /\ mConc.n >= 1 /\ mConc.n <= N

\* The invocations dispatched before index j that are still pending.
PendingBefore(j) == {i \in 1..(j - 1) : inv[i] = "pending"}

C2_ResultsInInputOrder ==
  (mState = "fulfilled" /\ IsArray(mInput)) =>
    /\ Len(mResult) = N
    /\ \A i \in 1..N : mResult[i] = FnResult(mInput.items[i], i)

\* C2 witness: mapcar over 3 items fulfilled although the last-dispatched
\* invocation settled first.
C2_Witness ==
  /\ mOp = "mapcar" /\ mState = "fulfilled" /\ N = 3
  /\ settled = <<3, 1, 2>>

MapIdle ==
  /\ mOp = "mapcar"
  /\ mInput = ArrayValue(<<>>)
  /\ mConc = ConcOmitted
  /\ mPolicy = "immediate"
  /\ mPc = "off"
  /\ fanin = "none"
  /\ inv = <<>>
  /\ slots = <<>>
  /\ cursor = 0
  /\ active = 0
  /\ failure = NoRej
  /\ mState = "pending"
  /\ mResult = <<>>
  /\ mReason = NoReason
  /\ dispatched = <<>>
  /\ maxInFlight = 0
  /\ firstRej = NoRej
  /\ settled = <<>>

\* A constructor that keeps the object it was given.
AliasContext(given, fresh) == given

\* let contextRef = { ...initialContext }: a new object for every future.
NewContext(given, fresh) == fresh

\* An overlay that copies nothing.
AssignNothing(target, source) == target

\* Object.assign(target, source): every field of source overwrites target's.
Assign(target, source) ==
  [k \in Keys |-> IF source[k] # "absent" THEN source[k] ELSE target[k]]

\* A missing handler that always fulfils.
PassThroughFulfil(st, pl) == <<"fulfilled", pl>>

\* No handler on the branch: resolve(wrapped.__value) / reject(wrapped.__reason).
PassThrough(st, pl) == <<st, pl>>

\* The fields of the context object future s holds.
Ctx(s) == heap[ref[s]]

\* create(initialContext) / begin(value, initialContext): the first future,
\* settled with the value, its context a copy of the caller's object.
ChainInit ==
  /\ len = 1
  /\ ref = [s \in Stages |-> IF s = 1 THEN NewContext(0, 1) ELSE 0]
  /\ \E c \in InitialContexts :
       /\ heap = [o \in Objects |-> IF o \in {0, NewContext(0, 1)} THEN c ELSE EmptyContext]
       /\ lastw = c
  /\ state = [s \in Stages |-> IF s = 1 THEN "fulfilled" ELSE "pending"]
  /\ \E v \in Vals : payload = [s \in Stages |-> IF s = 1 THEN v ELSE "none"]
  /\ onF = [s \in Stages |-> FALSE]
  /\ onR = [s \in Stages |-> FALSE]
  /\ pc = [s \in Stages |-> IF s = 1 THEN "done" ELSE "waiting"]
  /\ how = [s \in Stages |-> "none"]
  /\ lateWrites = 0
  /\ lateCalls = 0
  /\ invoked = [s \in Stages |-> 0]
  /\ raised = [s \in Stages |-> "none"]
  /\ stray = [k \in Keys |-> FALSE]

\* resolve / reject of future s (wrappedResolve, wrappedReject).
Settle(s, st, pl) ==
  LET f == SettleOnce(<<state[s], payload[s]>>, <<st, pl>>)
  IN /\ state' = [state EXCEPT ![s] = f[1]]
     /\ payload' = [payload EXCEPT ![s] = f[2]]

\* p.then(onFulfilled, onRejected) on the last future: a new future whose
\* context is a copy of the receiver's _context.
Then(f, r) ==
  /\ len >= 1 /\ len < MaxStages
  /\ LET s == len + 1
         o == NewContext(ref[len], s)
     IN /\ len' = s
        /\ ref' = [ref EXCEPT ![s] = o]
        /\ heap' = [heap EXCEPT ![o] = heap[ref[len]]]
        /\ onF' = [onF EXCEPT ![s] = f]
        /\ onR' = [onR EXCEPT ![s] = r]
  /\ UNCHANGED <<state, payload, pc, how, lateWrites, lateCalls, invoked, raised,
                 lastw, stray>>
  /\ UNCHANGED mapVars

\* A callback that does not wait for the receiver to settle.
DueEarly(s) == s \in 2..len /\ pc[s] = "waiting"

\* The future whose then() made future s (the `this` its callback closes
\* over): the future before it, or, for a second continuation registered on
\* the same receiver (p.then(h1); p.then(h2)), the one before its sibling.
Receiver(s) == IF op[s] = "sibling" THEN s - 2 ELSE s - 1

\* The receiver of future s has settled and the callback of s is due.
Due(s) == s \in 2..len /\ pc[s] = "waiting" /\ state[Receiver(s)] # "pending"

\* The handler then() was given for the branch the receiver settled on.
HasHandler(s) == IF state[Receiver(s)] = "fulfilled" THEN onF[s] ELSE onR[s]

\* The context the callback works on: the receiver's overlaid on the future's.
Merged(s) == Assign(Ctx(s), Ctx(Receiver(s)))

\* The callback with no handler on the branch: the payload is forwarded.
Forward(s) ==
  /\ Due(s) /\ ~HasHandler(s)
  /\ LET f == PassThrough(state[Receiver(s)], payload[Receiver(s)])
     IN Settle(s, f[1], f[2])
  /\ heap' = [heap EXCEPT ![ref[s]] = Merged(s)]
  /\ pc' = [pc EXCEPT ![s] = "done"]
  /\ how' = [how EXCEPT ![s] = "forwarded"]
  /\ UNCHANGED <<len, ref, onF, onR, lateWrites, lateCalls, invoked, raised,
                 lastw, stray>>
  /\ UNCHANGED mapVars

\* What a handler may leave of the context m it is given: m itself, or m with
\* one field written or deleted.
HandlerEdits(m) ==
  {m} \cup {[m EXCEPT ![k] = v] : k \in Keys, v \in FieldVals}

\* What every invocation of a handler does: the handler gets the merged
\* context, and leaves it holding c.
Call(s, c) ==
  /\ Due(s) /\ HasHandler(s)
  /\ invoked' = [invoked EXCEPT ![s] = @ + 1]
  /\ heap' = [heap EXCEPT ![ref[s]] = c]
  /\ lastw' = [k \in Keys |-> IF c[k] # Merged(s)[k] THEN c[k] ELSE lastw[k]]
  /\ UNCHANGED <<len, ref, onF, onR, lateWrites, lateCalls, stray>>
  /\ UNCHANGED mapVars

\* A handler written by the chain's user: it edits the context as it likes.
Invoke(s, c) == Due(s) /\ c \in HandlerEdits(Merged(s)) /\ Call(s, c)

\* The handler returned the plain value v: resolve(result).
Returned(s, v) ==
  /\ Settle(s, "fulfilled", v)
  /\ pc' = [pc EXCEPT ![s] = "done"]
  /\ how' = [how EXCEPT ![s] = "returned"]
  /\ UNCHANGED raised

\* The handler returns a plain value.
HandlerReturns(s, c, v) == Invoke(s, c) /\ Returned(s, v)

\* An exception that escapes the callback: nothing settles the future.
Escapes(e) == <<"pending", "none">>

\* try { ... } catch (error) { reject(error) }
Caught(e) == <<"rejected", e>>

\* The handler threw e.
Thrown(s, e) ==
  /\ Settle(s, Caught(e)[1], Caught(e)[2])
  /\ pc' = [pc EXCEPT ![s] = "done"]
  /\ how' = [how EXCEPT ![s] = "threw"]
  /\ raised' = [raised EXCEPT ![s] = e]

\* The handler throws.
HandlerThrows(s, c, e) == Invoke(s, c) /\ Thrown(s, e)

\* The handler returned a thenable: result.then(resolve, reject).
Awaited(s) ==
  /\ pc' = [pc EXCEPT ![s] = "done"]
  /\ how' = [how EXCEPT ![s] = "adopted"]
  /\ UNCHANGED <<state, payload, raised>>

\* The handler returns a thenable.
HandlerAwaits(s, c) == Invoke(s, c) /\ Awaited(s)

\* The thenable a handler returned calls resolve (ok) or reject, possibly more
\* than once.
ThenableCalls(s, ok, p) ==
  /\ s \in 2..len /\ how[s] = "adopted"
  /\ state[s] = "pending" \/ lateWrites + lateCalls < MaxLate
  /\ lateCalls' = IF state[s] = "pending" THEN lateCalls ELSE lateCalls + 1
  /\ Settle(s, IF ok THEN "fulfilled" ELSE "rejected", p)
  /\ UNCHANGED <<len, ref, heap, onF, onR, pc, how, lateWrites, invoked, raised,
                 lastw, stray>>
  /\ UNCHANGED mapVars

\* Code that kept the ctx a handler of future s was given writes a field:
\* while the handler's awaitable is pending, or after the future has settled.
HandleWrite(s, k, v) ==
  /\ s \in 2..len /\ invoked[s] > 0
  /\ lateWrites + lateCalls < MaxLate
  /\ lateWrites' = lateWrites + 1
  /\ heap[ref[s]][k] # v
  /\ heap' = [heap EXCEPT ![ref[s]][k] = v]
  /\ IF state[s] = "pending"
       THEN lastw' = [lastw EXCEPT ![k] = v] /\ stray' = stray
       ELSE stray' = [stray EXCEPT ![k] = TRUE] /\ lastw' = lastw
  /\ UNCHANGED <<len, ref, state, payload, onF, onR, pc, how, lateCalls, invoked,
                 raised>>
  /\ UNCHANGED mapVars

Thens == \E f \in BOOLEAN, r \in BOOLEAN : Then(f, r) /\ UNCHANGED opVars

Forwards == \E s \in Stages : Forward(s) /\ UNCHANGED opVars

Returns ==
  \E s \in Stages, c \in Contexts, v \in Vals :
    HandlerReturns(s, c, v) /\ UNCHANGED opVars

Throws ==
  \E s \in Stages, c \in Contexts, e \in Errs :
    HandlerThrows(s, c, e) /\ UNCHANGED opVars

Awaits == \E s \in Stages, c \in Contexts : HandlerAwaits(s, c) /\ UNCHANGED opVars

ThenableSettles ==
  \E s \in Stages, ok \in BOOLEAN, p \in Vals \cup Errs :
    /\ (ok <=> p \in Vals)
    /\ ThenableCalls(s, ok, p)
    /\ UNCHANGED opVars

HandleWrites ==
  \E s \in Stages, k \in Keys : HandleWrite(s, k, "c2") /\ UNCHANGED opVars

ChainNext ==
  \/ Thens
  \/ Forwards
  \/ Returns
  \/ Throws
  \/ Awaits
  \/ ThenableSettles
  \/ HandleWrites

InitChain == ChainInit /\ MapIdle /\ OpsIdle

SpecChain == InitChain /\ [][ChainNext]_vars

\* ------------------------------------------------------- claims: chain
\* The step invokes a handler of future s.
Invoking(s) == invoked'[s] > invoked[s]

\* Field k of context c holds the value last written to k along the chain
\* (nothing is asked of a field never written or deleted since, nor of one
\* written through a kept handle after its future settled).
Threaded(k, c) == (lastw[k] # "absent" /\ ~stray[k]) => c[k] = lastw[k]

\* C6: along a chain started by create/begin, every field of the initial
\* context and every field written by the handler of a stage is present with
\* its last written value in the context passed to the handler of every later
\* stage, and in the context toObject()/getContext() yield for the last stage.
C6_ContextThreading ==
  /\ [](len >= 1 /\ state[len] = "fulfilled" => \A k \in Keys : Threaded(k, Ctx(len)))
  /\ [][\A s \in Stages : Invoking(s) => \A k \in Keys : Threaded(k, Merged(s))]_vars

\* C6 witness: the second future's handler added y to an initial { x: c1 },
\* the third future's handler ran after it, and the third future's context
\* holds both fields.
C6_Witness ==
  /\ len = 3 /\ invoked[2] = 1 /\ invoked[3] = 1 /\ state[3] = "fulfilled"
  /\ Ctx(1) = [x |-> "c1", y |-> "absent"]
  /\ Ctx(2) = [x |-> "c1", y |-> "c2"]
  /\ Ctx(3) = [x |-> "c1", y |-> "c2"]
  /\ lateWrites = 0

\* C7 as claimed: every stage of a chain holds the same context object, so
\* the stages that were handed the context see the same fields.
C7_SameContextObject ==
  \A a, b \in 2..len :
    (invoked[a] > 0 /\ invoked[b] > 0) => (ref[a] = ref[b] /\ Ctx(a) = Ctx(b))

\* The step changes a field of the context future a holds.
ContextChanges(a) == heap'[ref[a]] # heap[ref[a]]

\* C7 amended: every future of a chain holds a context object of its own (a
\* copy of its receiver's, made by then, and not the caller's object); a
\* write to the context of one stage, by its handler or through the handle
\* kept from it, changes the fields of no other stage's context.
C7_OwnContextObject ==
  /\ [](\A a, b \in 1..len : a # b => (ref[a] # ref[b] /\ ref[a] # 0))
  /\ [][\A a \in 1..len : ContextChanges(a) =>
          \A b \in 1..len : b # a => ~ContextChanges(b)]_vars

\* C7 witness: after the third future's handler was invoked, a field was
\* written through the second future's handle, and the third future's context
\* does not show it.
C7_Witness ==
  /\ len = 3 /\ invoked[2] = 1 /\ invoked[3] = 1
  /\ stray["y"] /\ Ctx(2)["y"] = "c2" /\ Ctx(3)["y"] = "absent"

\* C8: a future whose then() had no handler for the branch its receiver
\* settled on settles the same way with the same payload, invokes no handler,
\* and its context holds the receiver's fields.
C8_ForwardUnchanged ==
  \A s \in 2..len :
    how[s] = "forwarded" =>
      /\ ~(IF state[s - 1] = "fulfilled" THEN onF[s] ELSE onR[s])
      /\ state[s] = state[s - 1]
      /\ payload[s] = payload[s - 1]
      /\ invoked[s] = 0
      /\ \A k \in Keys :
           (Ctx(s - 1)[k] # "absent" /\ ~stray[k]) => Ctx(s)[k] = Ctx(s - 1)[k]

\* C8 witness: the second future's handler threw after writing y; the third,
\* made by then(onFulfilled) without onRejected, rejected with that reason.
C8_Witness ==
  /\ len = 3 /\ how[2] = "threw" /\ how[3] = "forwarded"
  /\ onF[3] /\ ~onR[3]
  /\ state[3] = "rejected" /\ payload[3] = "e2"
  /\ Ctx(1)["y"] = "absent" /\ Ctx(3)["y"] = "c2"

\* C9: a handler that throws makes its future reject with the thrown error,
\* and the handler of a following catch is given the context as of the
\* failure: the initial fields, the upstream writes and the writes the
\* failing handler made before it threw.
C9_ThrowBecomesRejection ==
  /\ [](\A s \in 2..len :
          how[s] = "threw" => (state[s] = "rejected" /\ payload[s] = raised[s]))
  /\ [][\A s \in 3..MaxStages :
          (Invoking(s) /\ how[s - 1] = "threw") =>
            \A k \in Keys : Threaded(k, Merged(s))]_vars

\* C9 witness: the second future's handler wrote y and threw e1; the catch
\* handler of the third was invoked and its context holds x and y.
C9_Witness ==
  /\ len = 3 /\ how[2] = "threw" /\ payload[2] = "e1"
  /\ onR[3] /\ invoked[3] = 1
  /\ Ctx(1) = [x |-> "c1", y |-> "absent"]
  /\ Ctx(2) = [x |-> "c1", y |-> "c2"]
  /\ Ctx(3) = [x |-> "c1", y |-> "c2"]
  /\ lateWrites = 0

\* C10: a settled future keeps its state and payload whatever resolve or
\* reject calls follow, and no future has its handler invoked twice.
C10_SettlesOnce ==
  /\ [](\A s \in Stages : invoked[s] <= 1)
  /\ [][\A s \in Stages : state[s] # "pending" =>
          (state'[s] = state[s] /\ payload'[s] = payload[s])]_vars

\* C10 witness: the thenable a handler returned called resolve or reject
\* again after the future had fulfilled.
C10_Witness ==
  /\ lateCalls = 1
  /\ \E s \in 2..len : how[s] = "adopted" /\ state[s] = "fulfilled"

\* ============================================================== combinators
\* The methods that are then() with a handler of their own, and the
\* accessors, over a chain whose first future an executor fulfilled or
\* rejected.  Values are scalars (no arrays).

\* Reasons a future rejects with: reject() / throw undefined, or an error.
Reasons == {"undefined", "e1"}

Methods == {"then", "catch", "tap", "map", "when", "focus", "tee", "filter", "mapcar"}

\* The methods that take a context key.
Keyed == {"tap", "focus"}

\* new TacitPromise(executor, initialContext): the executor resolves or
\* rejects at once; the context is a copy of the caller's object.
OpsInit ==
  /\ len = 1
  /\ ref = [s \in Stages |-> IF s = 1 THEN NewContext(0, 1) ELSE 0]
  /\ \E c \in {EmptyContext, [EmptyContext EXCEPT !["x"] = "c1"]} :
       /\ heap = [o \in Objects |-> IF o \in {0, NewContext(0, 1)} THEN c ELSE EmptyContext]
       /\ lastw = c
  /\ \E st \in {"fulfilled", "rejected"}, p \in Vals \cup Reasons :
       /\ p \in (IF st = "fulfilled" THEN Vals ELSE Reasons)
       /\ state = [s \in Stages |-> IF s = 1 THEN st ELSE "pending"]
       /\ payload = [s \in Stages |-> IF s = 1 THEN p ELSE "none"]
  /\ onF = [s \in Stages |-> FALSE]
  /\ onR = [s \in Stages |-> FALSE]
  /\ pc = [s \in Stages |-> IF s = 1 THEN "done" ELSE "waiting"]
  /\ how = [s \in Stages |-> "none"]
  /\ lateWrites = 0
  /\ lateCalls = 0
  /\ invoked = [s \in Stages |-> 0]
  /\ raised = [s \in Stages |-> "none"]
  /\ stray = [k \in Keys |-> FALSE]
  /\ op = [s \in Stages |-> IF s = 1 THEN "new" ELSE "none"]
  /\ arg = [s \in Stages |-> ""]
  /\ phase = [s \in Stages |-> "none"]
  /\ cond = [s \in Stages |-> "none"]
  /\ fnCalls = [s \in Stages |-> 0]
  /\ produced = [s \in Stages |-> "none"]
  /\ carried = [s \in Stages |-> NoCarried]
  /\ got = Nothing
  /\ unhandled = Nothing
  /\ label = [s \in Stages |-> ""]
  /\ fields = [s \in Stages |-> NoFields]
  /\ sunk = [s \in Stages |-> Unsunk]
  /\ awaited = Nothing
  /\ fnInv = [s \in Stages |-> <<>>]
  /\ views = NoViews

\* Methods that all pass a rejection handler too.
PassesBoth(o, f, r) == f /\ r

\* The handlers method o passes to then(): catch gives onRejected only, the
\* combinators onFulfilled only, then() what its caller gave.
Passes(o, f, r) ==
  CASE o = "then" -> TRUE
    [] o = "catch" -> ~f /\ r
    [] OTHER -> f /\ ~r

\* p.o(...) on the last future of the chain.
Register(o, k, f, r) ==
  /\ got = Nothing /\ unhandled = Nothing
  /\ Passes(o, f, r)
  /\ Then(f, r)
  /\ op' = [op EXCEPT ![len + 1] = o]
  /\ arg' = [arg EXCEPT ![len + 1] = IF o \in Keyed THEN k ELSE ""]
  /\ UNCHANGED <<phase, cond, fnCalls, produced, carried, got, unhandled>>
  /\ UNCHANGED obsVars

\* No handler for the branch the receiver settled on, whatever the method.
Skip(s) == Forward(s) /\ UNCHANGED opVars

\* The callback of future s runs a handler and s was made by method o.
Runs(s, o) == Due(s) /\ HasHandler(s) /\ op[s] = o

\* ctx[key]: a missing field reads as undefined.
Read(c, k) == IF c[k] = "absent" THEN "undefined" ELSE c[k]

\* A tap that stores the value under every key.
TapWriteAll(c, k, v) == [j \in Keys |-> v]

\* tap: ctx[key] = value
TapWrite(c, k, v) == [c EXCEPT ![k] = v]

\* tap(key): (value, ctx) => { ctx[key] = value; return value }
Tap(s) ==
  /\ Runs(s, "tap")
  /\ Call(s, TapWrite(Merged(s), arg[s], payload[s - 1]))
  /\ Returned(s, payload[s - 1])
  /\ UNCHANGED opVars

\* A focus that moves the field out of the context.
FocusTakes(c, k) == [value |-> Read(c, k), context |-> [c EXCEPT ![k] = "absent"]]

\* focus: (_, ctx) => ctx[key]
FocusReads(c, k) == [value |-> Read(c, k), context |-> c]

\* focus(key)
Focus(s) ==
  /\ Runs(s, "focus")
  /\ Call(s, FocusReads(Merged(s), arg[s]).context)
  /\ Returned(s, FocusReads(Merged(s), arg[s]).value)
  /\ UNCHANGED opVars

\* A map that lets the receiver's value through.
MapKeeps(value, out) == value

\* map: (value) => fn(value)
MapResult(value, out) == out

\* map(fn), fn returns the plain value v.
MapReturns(s, v) ==
  /\ Runs(s, "map")
  /\ Call(s, Merged(s))
  /\ Returned(s, MapResult(payload[s - 1], v))
  /\ produced' = [produced EXCEPT ![s] = v]
  /\ UNCHANGED <<op, arg, phase, cond, fnCalls, carried, got, unhandled>>
  /\ UNCHANGED obsVars

\* map(fn), fn throws.
MapThrows(s, e) ==
  /\ Runs(s, "map")
  /\ Call(s, Merged(s))
  /\ Thrown(s, e)
  /\ UNCHANGED opVars

\* map(fn), fn is async: it returns a promise.
MapAwaits(s) ==
  /\ Runs(s, "map")
  /\ Call(s, Merged(s))
  /\ Awaited(s)
  /\ UNCHANGED opVars

\* A tee that always shows the whole context.
ShownAll(c, fs) == c

\* tee: null/undefined = full context, [] = no context, [...fields] = filtered.
\* A listed key is in the object shown even when the context lacks it (its
\* value is then undefined); "absent" marks a key the object does not have.
Shown(c, fs) ==
  IF ~fs.given THEN c
  ELSE [k \in Keys |-> IF k \in fs.keys THEN Read(c, k) ELSE "absent"]

\* tee: const prefix = label || 'tee'
Prefix(l) == IF l = "" THEN "tee" ELSE l

\* tee: const output = { label: prefix, value, context: contextToShow }
Output(l, fs, v, c) == [label |-> Prefix(l), value |-> v, context |-> Shown(c, fs)]

\* tee: fn(output).  The sink reads what it is given.
Sink(s) ==
  LET output == Output(label[s], fields[s], payload[s - 1], Merged(s))
  IN  sunk' = [sunk EXCEPT ![s] = [calls |-> @.calls + 1, label |-> output.label,
                                   value |-> output.value, context |-> output.context]]

\* tee(label, fields, fn): the sink is called and the value returned.
Tee(s) ==
  /\ Runs(s, "tee")
  /\ Call(s, Merged(s))
  /\ Sink(s)
  /\ Returned(s, payload[s - 1])
  /\ UNCHANGED <<op, arg, phase, cond, fnCalls, produced, carried, got, unhandled>>
  /\ UNCHANGED <<label, fields, awaited, fnInv, views>>

\* tee: the sink throws.
TeeThrows(s, e) ==
  /\ Runs(s, "tee")
  /\ Call(s, Merged(s))
  /\ Sink(s)
  /\ Thrown(s, e)
  /\ UNCHANGED <<op, arg, phase, cond, fnCalls, produced, carried, got, unhandled>>
  /\ UNCHANGED <<label, fields, awaited, fnInv, views>>

\* tee: the sink is async and the promise it returns rejects with e; tee does
\* not look at what fn(output) returned.
TeeSinkRejects(s, e) ==
  /\ Runs(s, "tee")
  /\ Call(s, Merged(s))
  /\ Sink(s)
  /\ Returned(s, payload[s - 1])
  /\ produced' = [produced EXCEPT ![s] = e]
  /\ UNCHANGED <<op, arg, phase, cond, fnCalls, carried, got, unhandled>>
  /\ UNCHANGED <<label, fields, awaited, fnInv, views>>

\* The handlers the chain's user gives to then() and catch().
ByUser(s) == Due(s) /\ op[s] \in {"then", "catch"}

\* What these handlers do to the context m: nothing, write y, or delete x.
UserEdits(m) == {m, [m EXCEPT !["y"] = "c2"], [m EXCEPT !["x"] = "absent"]}

UserReturns(s, c, v) == ByUser(s) /\ HandlerReturns(s, c, v) /\ UNCHANGED opVars

UserThrows(s, c, e) == ByUser(s) /\ HandlerThrows(s, c, e) /\ UNCHANGED opVars

\* The handler returns a thenable that is no contextual future.
UserAwaits(s, c) == ByUser(s) /\ HandlerAwaits(s, c) /\ UNCHANGED opVars

\* The contexts of the contextual futures handlers return.
NestedContexts == {c \in Contexts : c["x"] = "absent" /\ c["y"] # "absent"}

\* The handler returns a contextual future whose context holds q.
UserAwaitsNested(s, c, q) ==
  /\ ByUser(s)
  /\ HandlerAwaits(s, c)
  /\ carried' = [carried EXCEPT ![s] = [is |-> TRUE, fields |-> q]]
  /\ UNCHANGED <<op, arg, phase, cond, fnCalls, produced, got, unhandled>>
  /\ UNCHANGED obsVars

\* An adoption that overlays the context the returned future carries.
AdoptMerging(own, theirs) == Assign(own, theirs)

\* result.then(resolve, reject): resolve and reject get the payload of the
\* returned future; its context goes nowhere.
AdoptContext(own, theirs) == own

\* The contextual future a handler returned settles.
NestedSettles(s, ok, p) ==
  /\ s \in 2..len /\ how[s] = "adopted" /\ carried[s].is
  /\ state[s] = "pending"
  /\ Settle(s, IF ok THEN "fulfilled" ELSE "rejected", p)
  /\ heap' = [heap EXCEPT ![ref[s]] = AdoptContext(Ctx(s), carried[s].fields)]
  /\ produced' = [produced EXCEPT ![s] = p]
  /\ UNCHANGED <<len, ref, onF, onR, pc, how, lateWrites, lateCalls, invoked, raised,
                 lastw, stray>>
  /\ UNCHANGED <<op, arg, phase, cond, fnCalls, carried, got, unhandled>>
  /\ UNCHANGED obsVars
  /\ UNCHANGED mapVars

\* The thenable (or promise) a handler or fn returned calls resolve / reject.
PlainSettles(s, ok, p) ==
  /\ s \in 2..len /\ op[s] \in {"then", "catch", "map"} /\ ~carried[s].is
  /\ state[s] = "pending"
  /\ ThenableCalls(s, ok, p)
  /\ produced' = [produced EXCEPT ![s] = IF state[s] = "pending" THEN p ELSE @]
  /\ UNCHANGED <<op, arg, phase, cond, fnCalls, carried, got, unhandled>>
  /\ UNCHANGED obsVars

\* A when that passes on what fn returned.
WhenTakes(value, out) == out

\* when: return value ("always return original value")
WhenResult(value, out) == value

\* when(predicate, fn): the async handler starts and calls predicate.
WhenBegins(s) ==
  /\ Runs(s, "when")
  /\ Call(s, Merged(s))
  /\ Awaited(s)
  /\ phase' = [phase EXCEPT ![s] = "pred"]
  /\ UNCHANGED <<op, arg, cond, fnCalls, produced, carried, got, unhandled>>
  /\ UNCHANGED obsVars

\* An if that takes the branch on a falsy condition too.
BranchAlways(r) == TRUE

\* if (condition)
Branch(r) == r = "true"

\* await predicate(value, ctx) gives r; if truthy fn is called, else the
\* handler returns.
PredicateSettles(s, r) ==
  /\ s \in 2..len /\ phase[s] = "pred"
  /\ cond' = [cond EXCEPT ![s] = r]
  /\ IF Branch(r)
       THEN /\ fnCalls' = [fnCalls EXCEPT ![s] = @ + 1]
            /\ phase' = [phase EXCEPT ![s] = "fn"]
            /\ UNCHANGED <<state, payload>>
       ELSE /\ phase' = [phase EXCEPT ![s] = "end"]
            /\ Settle(s, "fulfilled", WhenResult(payload[s - 1], "undefined"))
            /\ UNCHANGED fnCalls
  /\ UNCHANGED <<len, ref, heap, onF, onR, pc, how, lateWrites, lateCalls, invoked,
                 raised, lastw, stray>>
  /\ UNCHANGED <<op, arg, produced, carried, got, unhandled>>
  /\ UNCHANGED obsVars
  /\ UNCHANGED mapVars

\* predicate throws, or the promise it returned rejects.
PredicateFails(s, e) ==
  /\ s \in 2..len /\ phase[s] = "pred"
  /\ phase' = [phase EXCEPT ![s] = "end"]
  /\ Settle(s, "rejected", e)
  /\ raised' = [raised EXCEPT ![s] = e]
  /\ UNCHANGED <<len, ref, heap, onF, onR, pc, how, lateWrites, lateCalls, invoked,
                 lastw, stray>>
  /\ UNCHANGED <<op, arg, cond, fnCalls, produced, carried, got, unhandled>>
  /\ UNCHANGED obsVars
  /\ UNCHANGED mapVars

\* fn(value, ctx) writes a field of the context while it runs.
WhenFnWrites(s, k, v) ==
  /\ s \in 2..len /\ phase[s] = "fn"
  /\ heap[ref[s]][k] # v
  /\ heap' = [heap EXCEPT ![ref[s]][k] = v]
  /\ lastw' = [lastw EXCEPT ![k] = v]
  /\ UNCHANGED <<len, ref, state, payload, onF, onR, pc, how, lateWrites, lateCalls,
                 invoked, raised, stray>>
  /\ UNCHANGED opVars
  /\ UNCHANGED mapVars

\* await fn(value, ctx) is over: fn returned p (ok), or failed with p.
WhenFnSettles(s, ok, p) ==
  /\ s \in 2..len /\ phase[s] = "fn"
  /\ phase' = [phase EXCEPT ![s] = "end"]
  /\ produced' = [produced EXCEPT ![s] = p]
  /\ IF ok THEN Settle(s, "fulfilled", WhenResult(payload[s - 1], p))
           ELSE Settle(s, "rejected", p)
  /\ raised' = [raised EXCEPT ![s] = IF ok THEN @ ELSE p]
  /\ UNCHANGED <<len, ref, heap, onF, onR, pc, how, lateWrites, lateCalls, invoked,
                 lastw, stray>>
  /\ UNCHANGED <<op, arg, cond, fnCalls, carried, got, unhandled>>
  /\ UNCHANGED obsVars
  /\ UNCHANGED mapVars

\* throw new Error('filter requires an array value') / ('mapcar requires ...')
TypeErrorOf(o) ==
  IF o = "filter" THEN "filter requires an array value"
                  ELSE "mapcar requires an array value"

\* filter(fn) / mapcar(fn) on a value that is no array: the async handler
\* starts and throws.
ArrayOpBegins(s) ==
  /\ Runs(s, "filter") \/ Runs(s, "mapcar")
  /\ Call(s, Merged(s))
  /\ Awaited(s)
  /\ phase' = [phase EXCEPT ![s] = "thrown"]
  /\ UNCHANGED <<op, arg, cond, fnCalls, produced, carried, got, unhandled>>
  /\ UNCHANGED obsVars

\* The promise of the async handler rejects the future.
ArrayOpRejects(s) ==
  /\ s \in 2..len /\ phase[s] = "thrown"
  /\ phase' = [phase EXCEPT ![s] = "end"]
  /\ Settle(s, "rejected", TypeErrorOf(op[s]))
  /\ UNCHANGED <<len, ref, heap, onF, onR, pc, how, lateWrites, lateCalls, invoked,
                 raised, lastw, stray>>
  /\ UNCHANGED <<op, arg, cond, fnCalls, produced, carried, got, unhandled>>
  /\ UNCHANGED obsVars
  /\ UNCHANGED mapVars

\* A getValue that unwraps every reason.
GetValueUnwraps(st, pl) == [state |-> st, inner |-> pl, tagged |-> FALSE]

\* getValue(): wrapped => wrapped.__value on fulfilment; on rejection throw
\* wrapped.__reason if it is not undefined, else throw wrapped.
GetValueDelivers(st, pl) ==
  IF st = "fulfilled" THEN [state |-> "fulfilled", inner |-> pl, tagged |-> FALSE]
  ELSE IF pl # "undefined" THEN [state |-> "rejected", inner |-> pl, tagged |-> FALSE]
  ELSE [state |-> "rejected", inner |-> pl, tagged |-> TRUE]

\* await p.getValue() on the last future, once it has settled.
GetValue ==
  /\ len >= 1 /\ state[len] # "pending"
  /\ got = Nothing /\ unhandled = Nothing
  /\ got' = GetValueDelivers(state[len], payload[len])
  /\ UNCHANGED <<op, arg, phase, cond, fnCalls, produced, carried, unhandled>>
  /\ UNCHANGED obsVars
  /\ UNCHANGED <<chainVars, mapVars>>

\* wrappedReject: reject({ __reason: reason, __context: contextRef }), the
\* reason the underlying promise holds.
WrappedReject(reason) == [state |-> "rejected", inner |-> reason, tagged |-> TRUE]

\* The last future rejected and nothing handles it: the runtime reports the
\* reason its promise holds.
Unhandled ==
  /\ len >= 1 /\ state[len] = "rejected"
  /\ got = Nothing /\ unhandled = Nothing
  /\ unhandled' = WrappedReject(payload[len])
  /\ UNCHANGED <<op, arg, phase, cond, fnCalls, produced, carried, got>>
  /\ UNCHANGED obsVars
  /\ UNCHANGED <<chainVars, mapVars>>

Registers ==
  \E o \in Methods, k \in Keys, f \in BOOLEAN, r \in BOOLEAN :
    /\ o \in Keyed \/ k = "x"
    /\ Register(o, k, f, r)

Skips == \E s \in Stages : Skip(s)

Taps == \E s \in Stages : Tap(s)

Focuses == \E s \in Stages : Focus(s)

MapsReturn == \E s \in Stages, v \in Vals : MapReturns(s, v)

MapsThrow == \E s \in Stages, e \in Reasons : MapThrows(s, e)

MapsAwait == \E s \in Stages : MapAwaits(s)

Tees == \E s \in Stages : Tee(s)

TeesThrow == \E s \in Stages, e \in Reasons : TeeThrows(s, e)

UsersReturn ==
  \E s \in Stages : ByUser(s) /\ \E c \in UserEdits(Merged(s)), v \in Vals :
    UserReturns(s, c, v)

UsersThrow ==
  \E s \in Stages : ByUser(s) /\ \E c \in UserEdits(Merged(s)), e \in Reasons :
    UserThrows(s, c, e)

UsersAwait ==
  \E s \in Stages : ByUser(s) /\ \E c \in UserEdits(Merged(s)) : UserAwaits(s, c)

UsersAwaitNested ==
  \E s \in Stages : ByUser(s) /\ \E c \in UserEdits(Merged(s)), q \in NestedContexts :
    UserAwaitsNested(s, c, q)

Outcomes == {<<TRUE, v>> : v \in Vals} \cup {<<FALSE, e>> : e \in Reasons}

NestedSettle == \E s \in Stages, o \in Outcomes : NestedSettles(s, o[1], o[2])

PlainSettle == \E s \in Stages, o \in Outcomes : PlainSettles(s, o[1], o[2])

WhensBegin == \E s \in Stages : WhenBegins(s)

PredicatesSettle == \E s \in Stages, r \in {"true", "false"} : PredicateSettles(s, r)

PredicatesFail == \E s \in Stages, e \in Reasons : PredicateFails(s, e)

WhenFnsWrite == \E s \in Stages, k \in Keys : WhenFnWrites(s, k, "c2")

WhenFnsSettle == \E s \in Stages, o \in Outcomes : WhenFnSettles(s, o[1], o[2])

ArrayOpsBegin == \E s \in Stages : ArrayOpBegins(s)

ArrayOpsReject == \E s \in Stages : ArrayOpRejects(s)

OpsNext ==
  \/ Registers
  \/ Skips
  \/ Taps
  \/ Focuses
  \/ MapsReturn
  \/ MapsThrow
  \/ MapsAwait
  \/ Tees
  \/ TeesThrow
  \/ UsersReturn
  \/ UsersThrow
  \/ UsersAwait
  \/ UsersAwaitNested
  \/ NestedSettle
  \/ PlainSettle
  \/ WhensBegin
  \/ PredicatesSettle
  \/ PredicatesFail
  \/ WhenFnsWrite
  \/ WhenFnsSettle
  \/ ArrayOpsBegin
  \/ ArrayOpsReject
  \/ GetValue
  \/ Unhandled

InitOps == OpsInit /\ MapIdle

SpecOps == InitOps /\ [][OpsNext]_vars

\* ------------------------------------------------- claims: combinators
\* A future made by then() / catch() whose handler returned an awaitable.
Adopting(s) == op[s] \in {"then", "catch"} /\ how[s] = "adopted"

\* C11: a future whose handler returned an awaitable stays pending until the
\* awaitable settles and then takes its value or reason; when the awaitable
\* is a contextual future, the fields of the context it carries are then in
\* the future's context; a handler that returned a plain value fulfilled the
\* future with it.
C11_AdoptsAwaitable ==
  \A s \in 2..len :
    /\ (Adopting(s) /\ produced[s] = "none") => state[s] = "pending"
    /\ (Adopting(s) /\ produced[s] # "none") =>
         /\ state[s] # "pending" /\ payload[s] = produced[s]
         /\ carried[s].is =>
              \A k \in Keys : carried[s].fields[k] # "absent" =>
                                Ctx(s)[k] = carried[s].fields[k]
    /\ (op[s] \in {"then", "catch"} /\ how[s] = "returned") => state[s] = "fulfilled"

\* C12: what getValue() delivers is the future's settlement without the tag:
\* the settled value on fulfilment, the settled reason on rejection, whatever
\* the reason is, and never the internal object holding it.
C12_GetValueUnwraps ==
  got.state # "none" =>
    /\ got.state = state[len]
    /\ got.inner = payload[len]
    /\ ~got.tagged

\* C13: a rejection nothing handles is reported with the original reason (the
\* thrown error, the rejecting operation's reason), not with an object
\* wrapping it.
C13_UnhandledKeepsReason ==
  unhandled.state # "none" =>
    /\ unhandled.state = "rejected"
    /\ unhandled.inner = payload[len]
    /\ ~unhandled.tagged

\* The combinators: the methods that pass then() an onFulfilled of their own.
Combinators == Methods \ {"then", "catch"}

\* The callback of future s ran on a rejected receiver with no rejection
\* handler: s is a combinator's future, or then() got no onRejected.
Bypassed(s) ==
  /\ pc[s] = "done" /\ state[s - 1] = "rejected"
  /\ op[s] \in Combinators \/ ~onR[s]

\* C14: a future whose receiver rejected and that has no rejection handler
\* (then(onFulfilled), tap, map, when, filter, mapcar, focus, tee) rejects
\* with the same reason and none of its callbacks is invoked; the value a
\* catch / onRejected handler returns fulfils its future, and a future whose
\* receiver fulfilled has its onFulfilled handler run.
C14_RejectionPropagates ==
  /\ [](\A s \in 2..len :
          /\ Bypassed(s) =>
               /\ state[s] = "rejected" /\ payload[s] = payload[s - 1]
               /\ invoked[s] = 0 /\ fnCalls[s] = 0 /\ phase[s] = "none"
          /\ (pc[s] = "done" /\ state[s - 1] = "fulfilled" /\ onF[s]) => invoked[s] = 1)
  /\ [][\A s \in Stages :
          (Invoking(s) /\ state[s - 1] = "rejected" /\ how'[s] = "returned") =>
            (onR[s] /\ state'[s] = "fulfilled")]_vars

\* C14 witness: the first future rejected with e1, the future of when() passed
\* e1 on without running anything, and the handler of the catch() after it
\* returned v1.
C14_Witness ==
  /\ len = 3 /\ state[1] = "rejected" /\ payload[1] = "e1"
  /\ op[2] = "when" /\ state[2] = "rejected" /\ payload[2] = "e1"
  /\ invoked[2] = 0 /\ cond[2] = "none"
  /\ op[3] = "catch" /\ invoked[3] = 1
  /\ state[3] = "fulfilled" /\ payload[3] = "v1"

\* Future u was made by a method whose handler does not write field k.
Leaves(u, k) == op[u] \in {"map", "focus", "tee"} \/ (op[u] = "tap" /\ arg[u] # k)

\* C15: the handler of tap(key) leaves the context it was given with key
\* holding the current value and every other field as it was, and fulfils
\* its future with the same value; a later tap under another key, with no
\* stage in between that writes the field, keeps the field an earlier tap
\* wrote.
C15_TapStoresValue ==
  /\ [][\A s \in Stages :
          (Invoking(s) /\ op[s] = "tap") =>
            /\ heap'[ref[s]][arg[s]] = payload[s - 1]
            /\ \A k \in Keys \ {arg[s]} : heap'[ref[s]][k] = Merged(s)[k]
            /\ state'[s] = "fulfilled" /\ payload'[s] = payload[s - 1]]_vars
  /\ [](\A s \in 2..len :
          (op[s] = "tap" /\ state[s] = "fulfilled") =>
            /\ payload[s] = payload[s - 1]
            /\ Ctx(s)[arg[s]] = payload[s]
            /\ \A t \in (s + 1)..len :
                 (/\ op[t] = "tap" /\ arg[t] # arg[s] /\ state[t] = "fulfilled"
                  /\ \A u \in (s + 1)..(t - 1) : Leaves(u, arg[s])) =>
                   (Ctx(t)[arg[s]] = payload[s] /\ Ctx(t)[arg[t]] = payload[t]))

\* C15 witness: begin(v1, { x: c1 }).tap('x').tap('y'): x was overwritten
\* with v1 by the first tap and is kept by the second, which adds y.
C15_Witness ==
  /\ len = 3 /\ Ctx(1) = [x |-> "c1", y |-> "absent"] /\ payload[1] = "v1"
  /\ op[2] = "tap" /\ arg[2] = "x" /\ Ctx(2) = [x |-> "v1", y |-> "absent"]
  /\ op[3] = "tap" /\ arg[3] = "y" /\ Ctx(3) = [x |-> "v1", y |-> "v1"]
  /\ state[3] = "fulfilled" /\ payload[3] = "v1"

C17_WhenPassesValue ==
  /\ [](\A s \in 2..len :
          op[s] = "when" =>
            /\ fnCalls[s] = (IF cond[s] = "true" THEN 1 ELSE 0)
            /\ phase[s] \in {"pred", "fn"} => state[s] = "pending"
            /\ phase[s] = "end" => state[s] # "pending"
            /\ state[s] = "fulfilled" =>
                 /\ payload[s] = payload[s - 1]
                 /\ phase[s] = "end" /\ cond[s] # "none" /\ invoked[s] = 1
            /\ state[s] = "rejected" =>
                 \/ pc[s] = "done" /\ phase[s] = "none"
                 \/ cond[s] = "none"
                 \/ cond[s] = "true" /\ payload[s] = produced[s])
  /\ [][\A t \in 3..MaxStages :
          (Invoking(t) /\ op[t - 1] = "when") =>
            \A k \in Keys : Threaded(k, Merged(t))]_vars

\* C17 witness: the predicate was truthy, fn wrote y and returned undefined;
\* the future fulfilled with the receiver's v1 and the next handler ran on a
\* context holding y.
C17_Witness ==
  /\ len = 3 /\ op[2] = "when" /\ cond[2] = "true" /\ fnCalls[2] = 1
  /\ payload[1] = "v1" /\ produced[2] = "undefined"
  /\ state[2] = "fulfilled" /\ payload[2] = "v1"
  /\ Ctx(1)["y"] = "absent" /\ Ctx(2)["y"] = "c2"
  /\ op[3] = "then" /\ invoked[3] = 1 /\ Ctx(3)["y"] = "c2"

\* C20: the handler of focus(key) leaves every field of the context it was
\* given as it was and fulfils its future with context[key]; the fields stay
\* in the context, and the next handler is given them and can write more.
C20_FocusProjects ==
  /\ [][\A s \in Stages :
          (Invoking(s) /\ op[s] = "focus") =>
            /\ heap'[ref[s]] = Merged(s)
            /\ state'[s] = "fulfilled"
            /\ payload'[s] = Read(Merged(s), arg[s])]_vars
  /\ [](\A s \in 2..len :
          (op[s] = "focus" /\ state[s] = "fulfilled") =>
            /\ payload[s] = Read(Ctx(s), arg[s])
            /\ \A k \in Keys : Ctx(s - 1)[k] # "absent" => Ctx(s)[k] = Ctx(s - 1)[k])
  /\ [][\A t \in 3..MaxStages :
          (Invoking(t) /\ op[t - 1] = "focus" /\ state[t - 1] = "fulfilled") =>
            /\ \A k \in Keys : Merged(t)[k] = Ctx(t - 1)[k] \/ Ctx(t - 1)[k] = "absent"
            /\ \A k \in Keys : Threaded(k, Merged(t))]_vars

\* C20 witness: create({ x: c1 }).focus('x').then(handler writing y): the
\* focus fulfilled with c1 and the last context holds x and y.
C20_Witness ==
  /\ len = 3 /\ payload[1] = "undefined" /\ Ctx(1) = [x |-> "c1", y |-> "absent"]
  /\ op[2] = "focus" /\ arg[2] = "x"
  /\ state[2] = "fulfilled" /\ payload[2] = "c1" /\ Ctx(2) = Ctx(1)
  /\ op[3] = "then" /\ invoked[3] = 1 /\ state[3] = "fulfilled"
  /\ Ctx(3) = [x |-> "c1", y |-> "c2"]

\* ================================================================== filter
\* One call of filter(fn) on one value; inv[i] is what the predicate's
\* invocation for index i settled with ("true" / "false": the truthiness of
\* its result), slots the results array of Promise.all.

FilterInit ==
  /\ mOp = "filter"
  /\ mInput \in {ArrayValue(s) : s \in SeqsUpTo(Items, MaxLen)}
                \cup {NotArrayValue(<<>>), NotArrayValue(<<1, 2>>)}
  /\ mConc = ConcOmitted
  /\ mPolicy = "immediate"
  /\ mPc = "ready"
  /\ fanin = "none"
  /\ inv = [i \in 1..N |-> "idle"]
  /\ slots = [i \in 1..N |-> EmptySlot]
  /\ cursor = 0
  /\ active = 0
  /\ failure = NoRej
  /\ mState = "pending"
  /\ mResult = <<>>
  /\ mReason = NoReason
  /\ dispatched = <<>>
  /\ maxInFlight = 0
  /\ firstRej = NoRej
  /\ settled = <<>>

\* The message of filter's type check.
FilterTypeError == [msg |-> "filter requires an array value", idx |-> 0]

\* A filter that keeps every element.
KeepsAll(r) == TRUE

\* value.filter((_, i) => results[i]): the element stays if its result is truthy.
Keeps(r) == r = <<TRUE>>

\* value.filter((_, i) => results[i])
Filtered(items, results) ==
  LET F[k \in 0..Len(items)] ==
        IF k = 0 THEN <<>>
        ELSE IF Keeps(results[k]) THEN Append(F[k - 1], items[k]) ELSE F[k - 1]
  IN F[Len(items)]

\* filter's handler: the type check, then value.map invokes fn for every
\* index in order; an fn that throws synchronously at index k ends the loop
\* (and the async handler rejects); otherwise Promise.all collects.
\* k = N + 1: no invocation throws.
Filter ==
  /\ mOp = "filter" /\ mPc = "ready"
  /\ mPc' = "running"
  /\ UNCHANGED <<mOp, mInput, mConc, mPolicy, slots, cursor, active, failure>>
  /\ UNCHANGED <<chainVars, opVars>>
  /\ IF ~IsArray(mInput)
       THEN /\ StageReject(FilterTypeError)
            /\ UNCHANGED <<fanin, inv, dispatched, maxInFlight, firstRej, settled>>
       ELSE \E k \in 1..(N + 1) :
            /\ dispatched' = Upto(Min(k, N))
            /\ inv' = [i \in 1..N |-> AfterThrow(i, k)]
            /\ maxInFlight' = Min(k, N)
            /\ settled' = IF k <= N THEN <<k>> ELSE <<>>
            /\ IF k <= N
                 THEN /\ fanin' = "none"
                      /\ firstRej' = Record(firstRej, k)
                      /\ StageReject(FnReason(k))
                 ELSE /\ fanin' = "all"
                      /\ firstRej' = firstRej
                      /\ IF N = 0 THEN StageResolve(Filtered(mInput.items, slots))
                                  ELSE StageKeep

\* One invocation of the predicate settles with r ("true", "false", or
\* "rejected"), and Promise.all (if it was reached) reacts; when every result
\* is in, the handler filters and returns.
FilterSettle(i, r) ==
  /\ mOp = "filter" /\ mPc = "running"
  /\ inv[i] = "pending"
  /\ inv' = [inv EXCEPT ![i] = r]
  /\ firstRej' = IF r # "rejected" THEN firstRej ELSE Record(firstRej, i)
  /\ settled' = Append(settled, i)
  /\ UNCHANGED <<chainVars, opVars>>
  /\ UNCHANGED <<mOp, mInput, mConc, mPolicy, mPc, fanin, cursor, active,
                 failure, dispatched, maxInFlight>>
  /\ IF fanin # "all"
       THEN UNCHANGED slots /\ StageKeep
       ELSE IF r # "rejected"
         THEN LET nDone == Cardinality({j \in 1..N : slots[j] # EmptySlot})
                  s == [slots EXCEPT ![AllSlot(i, nDone)] = <<r = "true">>]
              IN /\ slots' = s
                 /\ IF \A j \in 1..N : inv'[j] \in {"true", "false"}
                      THEN StageResolve(Filtered(mInput.items, s))
                      ELSE StageKeep
         ELSE /\ UNCHANGED slots
              /\ StageReject(FnReason(i))

FilterSettles ==
  \E i \in 1..N, r \in {"true", "false", "rejected"} : FilterSettle(i, r)

FilterNext == Filter \/ FilterSettles

InitFilter == FilterInit /\ ChainIdle /\ OpsIdle

SpecFilter == InitFilter /\ [][FilterNext]_vars

\* ------------------------------------------------------- claims: filter
\* The indices whose predicate settled truthy.
TrueAt == {i \in 1..N : inv[i] = "true"}

\* The j-th smallest index of K.
Nth(K, j) == CHOOSE i \in K : Cardinality({h \in K : h < i}) = j - 1

\* C18: filter(fn) on an array invokes fn once for every index, in order,
\* before any result is consumed, and when it fulfils its value is exactly
\* the elements whose predicate settled true, in their original order,
\* whatever the order in which the predicates settled.
C18_FilterKeepsTrue ==
  (mOp = "filter" /\ IsArray(mInput)) =>
    /\ (fanin = "all" \/ mState = "fulfilled") => dispatched = Upto(N)
    /\ mState = "fulfilled" =>
         /\ \A i \in 1..N : inv[i] \in {"true", "false"}
         /\ Len(mResult) = Cardinality(TrueAt)
         /\ \A j \in 1..Len(mResult) : mResult[j] = mInput.items[Nth(TrueAt, j)]

\* C18 witness: filter over <<1, 2, 1>> whose predicates settled in the order
\* 3, 1, 2 with true, false, true, fulfilled with <<1, 1>>.
C18_Witness ==
  /\ mOp = "filter" /\ mInput = ArrayValue(<<1, 2, 1>>)
  /\ settled = <<3, 1, 2>>
  /\ inv = <<"true", "false", "true">>
  /\ mState = "fulfilled" /\ mResult = <<1, 1>>

\* C19: filter on a value that is no array rejects with the type-mismatch
\* error 'filter requires an array value' and never invokes fn.
C19_FilterTypeMismatch ==
  (mOp = "filter" /\ ~mInput.isArray /\ mPc = "running") =>
    /\ mState = "rejected"
    /\ mReason = [msg |-> "filter requires an array value", idx |-> 0]
    /\ dispatched = <<>>
    /\ \A i \in 1..N : inv[i] = "idle"

\* C19 witness: filter ran on a scalar (a value with no elements, like 42).
C19_Witness ==
  /\ mOp = "filter" /\ ~mInput.isArray /\ N = 0
  /\ mPc = "running" /\ mState = "rejected"

\* ==================================================================== tee
\* Chains of then(), catch() and tee(label, fields, fn) with every shape of
\* tee's arguments.
Labels == {"", "dbg"}

FieldsArgs == {NoFields} \cup {[given |-> TRUE, keys |-> K] : K \in SUBSET Keys}

\* p.tee(l, fs, fn) on the last future of the chain.
RegisterTee(l, fs) ==
  /\ got = Nothing /\ unhandled = Nothing
  /\ Passes("tee", TRUE, FALSE)
  /\ Then(TRUE, FALSE)
  /\ op' = [op EXCEPT ![len + 1] = "tee"]
  /\ label' = [label EXCEPT ![len + 1] = l]
  /\ fields' = [fields EXCEPT ![len + 1] = fs]
  /\ UNCHANGED <<arg, phase, cond, fnCalls, produced, carried, got, unhandled>>
  /\ UNCHANGED <<sunk, awaited, fnInv, views>>

TeeRegisters == \E l \in Labels, fs \in FieldsArgs : RegisterTee(l, fs)

\* p.then(f, r) with handlers of the chain's user; catch(r) is then(null, r).
UserRegisters == \E f \in BOOLEAN, r \in BOOLEAN : Register("then", "", f, r)

TeeNext ==
  \/ TeeRegisters
  \/ UserRegisters
  \/ Skips
  \/ Tees
  \/ TeesThrow
  \/ UsersReturn
  \/ UsersThrow

InitTee == OpsInit /\ MapIdle

SpecTee == InitTee /\ [][TeeNext]_vars

\* ------------------------------------------------------------- claim C21
\* The keys of the object a sink was shown.
KeysOf(c) == {k \in Keys : c[k] # "absent"}

\* The callback of the tee stage s runs on a fulfilled receiver.
TeePasses(s) ==
  /\ s \in 2..len /\ op[s] = "tee"
  /\ pc[s] = "waiting" /\ pc'[s] = "done" /\ state[s - 1] = "fulfilled"

\* C21: tee(label, fields, sink) calls the sink exactly once per fulfilled pass
\* (never on a rejected one) with { label, value, context }: the label given or
\* 'tee', the receiver's value, and the whole context when fields is null or
\* undefined, {} when it is [], an object with exactly the listed keys
\* otherwise.  The stage fulfils with the value unchanged and leaves every
\* field of the context it was given as it was.
C21_TeeShows ==
  /\ [](\A s \in 2..len : op[s] = "tee" =>
          /\ sunk[s].calls <= 1
          /\ pc[s] = "waiting" => sunk[s].calls = 0
          /\ (pc[s] = "done" /\ state[s - 1] = "rejected") => sunk[s].calls = 0
          /\ (pc[s] = "done" /\ state[s - 1] = "fulfilled") =>
               /\ sunk[s].calls = 1
               /\ sunk[s].label = (IF label[s] = "" THEN "tee" ELSE label[s])
               /\ sunk[s].value = payload[s - 1]
               /\ ~fields[s].given => sunk[s].context = Ctx(s)
               /\ fields[s].given =>
                    /\ KeysOf(sunk[s].context) = fields[s].keys
                    /\ \A k \in fields[s].keys :
                         sunk[s].context[k] = Read(Ctx(s), k)
               /\ raised[s] = "none" =>
                    state[s] = "fulfilled" /\ payload[s] = payload[s - 1])
  /\ [][\A s \in Stages : TeePasses(s) => Ctx(s)' = Merged(s)]_vars

\* C21 witness: tee('dbg', ['x', 'y'], sink) on a chain whose context has x but
\* not y showed its sink { x: 'c1', y: undefined } and passed the value on.
C21_Witness ==
  \E s \in 2..len :
    /\ op[s] = "tee" /\ label[s] = "dbg" /\ fields[s] = [given |-> TRUE, keys |-> {"x", "y"}]
    /\ pc[s] = "done" /\ state[s] = "fulfilled" /\ payload[s] = "v1"
    /\ sunk[s] = [calls |-> 1, label |-> "dbg", value |-> "v1",
                  context |-> [x |-> "c1", y |-> "undefined"]]

\* ================================================================ finally
\* finally(fn): a stage with a handler on both branches that runs the cleanup
\* callback fn(context), waits for what fn returned, and then settles as its
\* receiver did, unless fn failed.

\* A cleanup callback that is handed nothing.
NoCleanupArg(m) == EmptyContext

\* fn(context): the callback is handed the context of the chain.
CleanupArg(m) == m

\* A finally that fulfils whatever its receiver did.
CleanupSwallows(st, pl) == <<"fulfilled", "undefined">>

\* After the cleanup the value or the rejection passes through unchanged.
AfterCleanup(st, pl) == <<st, pl>>

\* A finally that drops the failure of its callback.
CleanupIgnored(st, pl, e) == <<st, pl>>

\* A failure e of the callback supersedes the original outcome.
CleanupFailed(st, pl, e) == <<"rejected", e>>

\* A finally that does not wait for its callback.
Undeferred(st, pl) == <<st, pl>>

\* While the awaitable fn returned is pending the future stays unsettled.
Deferred(st, pl) == <<"pending", "none">>

\* p.finally(fn) on the last future of the chain.
RegisterFinally ==
  /\ got = Nothing /\ unhandled = Nothing
  /\ Then(TRUE, TRUE)
  /\ op' = [op EXCEPT ![len + 1] = "finally"]
  /\ UNCHANGED <<arg, phase, cond, fnCalls, produced, carried, got, unhandled>>
  /\ UNCHANGED obsVars

\* The callback of the finally stage s invokes fn, which leaves the context
\* holding c.
Cleanup(s, c) ==
  /\ Runs(s, "finally")
  /\ c \in UserEdits(CleanupArg(Merged(s)))
  /\ Call(s, c)
  /\ fnCalls' = [fnCalls EXCEPT ![s] = @ + 1]
  /\ sunk' = [sunk EXCEPT ![s] = [calls |-> @.calls + 1, label |-> "", value |-> "none",
                                  context |-> CleanupArg(Merged(s))]]
  /\ UNCHANGED <<op, arg, cond, produced, carried, got, unhandled>>
  /\ UNCHANGED <<label, fields, awaited, fnInv, views>>

\* fn returns a plain value.
FinallyReturns(s, c) ==
  /\ Cleanup(s, c)
  /\ LET f == AfterCleanup(state[s - 1], payload[s - 1]) IN Settle(s, f[1], f[2])
  /\ pc' = [pc EXCEPT ![s] = "done"]
  /\ how' = [how EXCEPT ![s] = "returned"]
  /\ UNCHANGED <<raised, phase>>

\* fn throws e.
FinallyThrows(s, c, e) ==
  /\ Cleanup(s, c)
  /\ LET f == CleanupFailed(state[s - 1], payload[s - 1], e) IN Settle(s, f[1], f[2])
  /\ pc' = [pc EXCEPT ![s] = "done"]
  /\ how' = [how EXCEPT ![s] = "threw"]
  /\ raised' = [raised EXCEPT ![s] = e]
  /\ UNCHANGED phase

\* fn is async: it returns an awaitable that is still pending.
FinallyAwaits(s, c) ==
  /\ Cleanup(s, c)
  /\ LET f == Deferred(state[s - 1], payload[s - 1]) IN Settle(s, f[1], f[2])
  /\ pc' = [pc EXCEPT ![s] = "done"]
  /\ how' = [how EXCEPT ![s] = "adopted"]
  /\ phase' = [phase EXCEPT ![s] = "fn"]
  /\ UNCHANGED raised

\* The async fn writes a field of the context while it runs.
CleanupWrites(s, k, v) == s \in 2..len /\ op[s] = "finally" /\ WhenFnWrites(s, k, v)

\* The awaitable fn returned settles: it fulfils (ok) or rejects with e.
FinallySettles(s, ok, e) ==
  /\ s \in 2..len /\ op[s] = "finally" /\ phase[s] = "fn"
  /\ phase' = [phase EXCEPT ![s] = "end"]
  /\ LET f == IF ok THEN AfterCleanup(state[s - 1], payload[s - 1])
                    ELSE CleanupFailed(state[s - 1], payload[s - 1], e)
     IN Settle(s, f[1], f[2])
  /\ raised' = [raised EXCEPT ![s] = IF ok THEN @ ELSE e]
  /\ UNCHANGED <<len, ref, heap, onF, onR, pc, how, lateWrites, lateCalls, invoked,
                 lastw, stray>>
  /\ UNCHANGED <<op, arg, cond, fnCalls, produced, carried, got, unhandled>>
  /\ UNCHANGED obsVars
  /\ UNCHANGED mapVars

FinallyRegisters == RegisterFinally

FinallysReturn == \E s \in Stages, c \in Contexts : FinallyReturns(s, c)

FinallysThrow == \E s \in Stages, c \in Contexts, e \in Errs : FinallyThrows(s, c, e)

FinallysAwait == \E s \in Stages, c \in Contexts : FinallyAwaits(s, c)

CleanupsWrite == \E s \in Stages : CleanupWrites(s, "y", "c2")

FinallysSettle ==
  \E s \in Stages, ok \in BOOLEAN, e \in Errs :
    (ok => e = "e1") /\ FinallySettles(s, ok, e)

FinallyNext ==
  \/ FinallyRegisters
  \/ UserRegisters
  \/ Skips
  \/ UsersReturn
  \/ UsersThrow
  \/ FinallysReturn
  \/ FinallysThrow
  \/ FinallysAwait
  \/ CleanupsWrite
  \/ FinallysSettle

InitFinally == OpsInit /\ MapIdle

SpecFinally == InitFinally /\ [][FinallyNext]_vars

\* ------------------------------------------------------------- claim C22
\* C22: finally(fn) runs fn exactly once whether its receiver fulfilled or
\* rejected (also when the receiver is a catch that recovered), and then
\* settles as the receiver did: same value, or same rejection.  It never turns
\* a rejection into a fulfilment.
C22_FinallyRunsOnce ==
  \A s \in 2..len : op[s] = "finally" =>
    /\ fnCalls[s] = (IF pc[s] = "done" THEN 1 ELSE 0)
    /\ (state[s] # "pending" /\ raised[s] = "none") =>
         state[s] = state[s - 1] /\ payload[s] = payload[s - 1]
    /\ (state[s] # "pending" /\ state[s - 1] = "rejected") => state[s] = "rejected"

\* C22 witness: after a catch that recovered a rejection with v1, finally ran
\* fn once and fulfilled with v1.
C22_Witness ==
  /\ len = 3 /\ state[1] = "rejected"
  /\ onR[2] /\ invoked[2] = 1 /\ state[2] = "fulfilled" /\ payload[2] = "v1"
  /\ op[3] = "finally" /\ fnCalls[3] = 1
  /\ state[3] = "fulfilled" /\ payload[3] = "v1"

\* C22 witness on the failure path: the receiver rejected with e1, fn ran once
\* and the future rejected with e1.
C22_RejectedWitness ==
  \E s \in 2..len :
    /\ op[s] = "finally" /\ fnCalls[s] = 1
    /\ state[s - 1] = "rejected" /\ payload[s - 1] = "e1"
    /\ state[s] = "rejected" /\ payload[s] = "e1"

C24_FulfilledWitness ==
  \E s \in 2..len :
    /\ op[s] = "finally" /\ how[s] = "threw"
    /\ state[s - 1] = "fulfilled"
    /\ raised[s] = "e2" /\ state[s] = "rejected" /\ payload[s] = "e2"

C25_Witness ==
  /\ len = 3 /\ op[2] = "finally" /\ how[2] = "adopted" /\ phase[2] = "end"
  /\ sunk[2].context["y"] = "absent" /\ Ctx(2)["y"] = "c2"
  /\ invoked[3] = 1 /\ Ctx(3)["y"] = "c2"

AwaitDelivers(st, pl) == [state |-> st, inner |-> pl, tagged |-> FALSE]

\* await p on the last future, once it has settled.
Await ==
  /\ len >= 1 /\ state[len] # "pending"
  /\ awaited = Nothing /\ unhandled = Nothing
  /\ awaited' = AwaitDelivers(state[len], payload[len])
  /\ UNCHANGED <<op, arg, phase, cond, fnCalls, produced, carried, got, unhandled>>
  /\ UNCHANGED <<label, fields, sunk, fnInv, views>>
  /\ UNCHANGED <<chainVars, mapVars>>

\* The chain grows until its last future is awaited.
AwaitRegisters == awaited = Nothing /\ UserRegisters

AwaitNext ==
  \/ AwaitRegisters
  \/ Skips
  \/ UsersReturn
  \/ UsersThrow
  \/ GetValue
  \/ Await

InitAwait == OpsInit /\ MapIdle

SpecAwait == InitAwait /\ [][AwaitNext]_vars

\* ------------------------------------------------------------- claim C26
\* C26: awaiting a future directly gives what getValue() on it gives: it
\* fulfils with the same unwrapped value, and rejects with the same raw reason.
C26_AwaitAsGetValue ==
  (awaited # Nothing /\ got # Nothing) => awaited = got

\* Awaiting a future directly delivers the bare value or the raw reason.
C26_AwaitUnwraps ==
  awaited # Nothing =>
    awaited = [state |-> state[len], inner |-> payload[len], tagged |-> FALSE]

\* C26 witness: a future rejected with e1 was awaited and asked getValue(),
\* and both rejected with e1.
C26_Witness ==
  /\ len = 3 /\ state[len] = "rejected" /\ payload[len] = "e1"
  /\ awaited = [state |-> "rejected", inner |-> "e1", tagged |-> FALSE]
  /\ got = awaited

\* ============================================================== ordering
\* ------------------------------------------------------------- claim C27
\* C27: within one chain, handlers run in registration order: the handler of
\* a stage is never invoked before the futures of all stages registered before
\* it have settled, that is before their handlers have returned and every
\* awaitable they returned has settled.
C27_RegistrationOrder ==
  [][\A m \in Stages : Invoking(m) =>
       \A k \in 1..(m - 1) : pc[k] = "done" /\ state[k] # "pending"]_vars

\* C27 witness: the handler of stage 2 returned an awaitable, the awaitable
\* settled, and then the handler of stage 3 was invoked.
C27_Witness ==
  /\ len = 3 /\ invoked[2] = 1 /\ how[2] = "adopted" /\ state[2] # "pending"
  /\ invoked[3] = 1

\* ========================================================== constructors
\* Chains that record which constructor started them.

\* create(initialContext): new TacitPromise((resolve) => resolve(undefined), initialContext)
Create(c) == [made |-> "create", given |-> "", value |-> "undefined", context |-> c]

\* begin(value, context): new TacitPromise((resolve) => resolve(value), context)
Begin(v, c) == [made |-> "begin", given |-> v, value |-> v, context |-> c]

\* The first future of a chain made by create or begin; arg keeps the value
\* begin was given.
StartInit ==
  /\ ChainInit
  /\ \E c \in InitialContexts : \E b \in {Create(c)} \cup {Begin(v, c) : v \in Vals} :
       /\ heap[0] = b.context
       /\ payload[1] = b.value
       /\ op = [s \in Stages |-> IF s = 1 THEN b.made ELSE "none"]
       /\ arg = [s \in Stages |-> IF s = 1 THEN b.given ELSE ""]
  /\ phase = [s \in Stages |-> "none"]
  /\ cond = [s \in Stages |-> "none"]
  /\ fnCalls = [s \in Stages |-> 0]
  /\ produced = [s \in Stages |-> "none"]
  /\ carried = [s \in Stages |-> NoCarried]
  /\ got = Nothing
  /\ unhandled = Nothing
  /\ label = [s \in Stages |-> ""]
  /\ fields = [s \in Stages |-> NoFields]
  /\ sunk = [s \in Stages |-> Unsunk]
  /\ awaited = Nothing
  /\ fnInv = [s \in Stages |-> <<>>]
  /\ views = NoViews

StartNext ==
  \/ Thens
  \/ Forwards
  \/ Returns
  \/ Throws
  \/ HandleWrites

InitStart == StartInit /\ MapIdle

SpecStart == InitStart /\ [][StartNext]_vars

\* ------------------------------------------------------------- claim C28
\* C28: create(initialContext) yields a future fulfilled with undefined and
\* begin(value, initialContext) one fulfilled with value; its context holds
\* the fields of initialContext, in an object of its own (a shallow copy), so
\* that no write of any stage changes a top-level field of the caller's object.
C28_StartCopiesContext ==
  /\ [](/\ state[1] = "fulfilled"
        /\ op[1] = "create" => payload[1] = "undefined"
        /\ op[1] = "begin" => payload[1] = arg[1]
        /\ ref[1] # 0
        /\ Ctx(1) = heap[0])
  /\ [][heap'[0] = heap[0]]_vars

\* C28 witness: begin(v1, { x: c1 }); a later handler overwrote x and wrote y
\* in its context, and the caller's object still is { x: c1 }.
C28_Witness ==
  /\ op[1] = "begin" /\ payload[1] = "v1" /\ heap[0] = [x |-> "c1", y |-> "absent"]
  /\ len = 3 /\ invoked[2] = 1 /\ Ctx(2)["x"] = "c2"
  /\ invoked[3] = 1 /\ Ctx(3) = [x |-> "c2", y |-> "c1"]

Unbounded == ~mConc.given \/ mConc.n >= N

C32_OmittedWitness ==
  /\ mOp = "map" /\ mConc = ConcOmitted /\ N = 2
  /\ dispatched = <<1, 2>> /\ settled = <<2, 1>> /\ maxInFlight = 2
  /\ mState = "fulfilled"

\* ------------------------------------------------------------- claim C33
\* Array-mapping calls in which every invocation that was started fulfils,
\* and every step that can be taken eventually is (the event loop runs every
\* task that is ready).
MapcarFulfilling == Mapcar /\ ~firstRej'.seen

FulfilNext ==
  \/ MapcarFulfilling
  \/ Map
  \/ \E i \in 1..N : MapcarSettle(i, TRUE)
  \/ \E i \in 1..N : MapSettle(i, TRUE)

InitFulfil == MapInit /\ ChainIdle /\ OpsIdle

SpecMapFair == InitFulfil /\ [][FulfilNext]_vars /\ WF_vars(FulfilNext)

Elems == {1, 2}

\* The reason the invocation of fn for element i fails with.
FnErr(i) == IF i = 1 THEN "e1" ELSE "e2"

\* The value the invocation of fn for element i writes to the context.
FnWrite(i) == IF i = 1 THEN "c1" ELSE "c2"

\* What the stage fulfils with: value.filter(...) / the results of Promise.all.
FanResult(o) == IF o = "filter" THEN "filtered" ELSE "mapped"

\* Every invocation is handed a context object of its own.
InvocationCopy(o, i) == i

\* value.map((item, i) => fn(item, i, ctx)): every invocation is handed ctx,
\* the context object of the stage.
InvocationContext(o, i) == o

\* A chain that starts with the array, or with a plain value.
FanInit ==
  /\ len = 1
  /\ ref = [s \in Stages |-> IF s = 1 THEN NewContext(0, 1) ELSE 0]
  /\ \E c \in {EmptyContext, [EmptyContext EXCEPT !["x"] = "c1"]} :
       /\ heap = [o \in Objects |-> IF o \in {0, NewContext(0, 1)} THEN c ELSE EmptyContext]
       /\ lastw = c
  /\ state = [s \in Stages |-> IF s = 1 THEN "fulfilled" ELSE "pending"]
  /\ \E v \in {"arr", "v1"} : payload = [s \in Stages |-> IF s = 1 THEN v ELSE "none"]
  /\ onF = [s \in Stages |-> FALSE]
  /\ onR = [s \in Stages |-> FALSE]
  /\ pc = [s \in Stages |-> IF s = 1 THEN "done" ELSE "waiting"]
  /\ how = [s \in Stages |-> "none"]
  /\ lateWrites = 0
  /\ lateCalls = 0
  /\ invoked = [s \in Stages |-> 0]
  /\ raised = [s \in Stages |-> "none"]
  /\ stray = [k \in Keys |-> FALSE]
  /\ op = [s \in Stages |-> IF s = 1 THEN "begin" ELSE "none"]
  /\ arg = [s \in Stages |-> ""]
  /\ phase = [s \in Stages |-> "none"]
  /\ cond = [s \in Stages |-> "none"]
  /\ fnCalls = [s \in Stages |-> 0]
  /\ produced = [s \in Stages |-> "none"]
  /\ carried = [s \in Stages |-> NoCarried]
  /\ got = Nothing
  /\ unhandled = Nothing
  /\ label = [s \in Stages |-> ""]
  /\ fields = [s \in Stages |-> NoFields]
  /\ sunk = [s \in Stages |-> Unsunk]
  /\ awaited = Nothing
  /\ fnInv = [s \in Stages |-> <<>>]
  /\ views = NoViews

\* p.filter(fn) / p.mapcar(fn) on a chain that fulfilled with the array.
RegisterFan(o) ==
  /\ o \in {"filter", "mapcar"}
  /\ state[len] = "fulfilled" /\ payload[len] = "arr"
  /\ Register(o, "", TRUE, FALSE)
  /\ UNCHANGED <<fnInv, views>>

\* The async handler of filter / mapcar starts on an array: value.map invokes
\* fn for every element in order; an fn that throws synchronously at element
\* k ends the loop.  k = 3: no invocation throws, and Promise.all collects.
FanBegins(s, k) ==
  /\ Runs(s, "filter") \/ Runs(s, "mapcar")
  /\ payload[s - 1] = "arr"
  /\ Call(s, Merged(s))
  /\ Awaited(s)
  /\ fnInv' = [fnInv EXCEPT ![s] = [i \in Elems |-> IF i < k THEN "pending"
                                              ELSE IF i = k THEN "rejected" ELSE "idle"]]
  /\ fnCalls' = [fnCalls EXCEPT ![s] = Cardinality({i \in Elems : i <= k})]
  /\ phase' = [phase EXCEPT ![s] = IF k \in Elems THEN "thrown" ELSE "all"]
  /\ produced' = [produced EXCEPT ![s] = IF k \in Elems THEN FnErr(k) ELSE @]
  /\ UNCHANGED <<op, arg, cond, carried, got, unhandled>>
  /\ UNCHANGED <<label, fields, sunk, awaited, views>>

\* The promise of the async handler that threw rejects the future.
FanThrown(s) ==
  /\ s \in 2..len /\ op[s] \in {"filter", "mapcar"} /\ phase[s] = "thrown"
  /\ phase' = [phase EXCEPT ![s] = "end"]
  /\ Settle(s, "rejected", produced[s])
  /\ raised' = [raised EXCEPT ![s] = produced[s]]
  /\ UNCHANGED <<len, ref, heap, onF, onR, pc, how, lateWrites, lateCalls, invoked,
                 lastw, stray>>
  /\ UNCHANGED <<op, arg, cond, fnCalls, produced, carried, got, unhandled>>
  /\ UNCHANGED obsVars
  /\ UNCHANGED mapVars

\* The invocation of fn for element i, resumed after a suspension point,
\* writes FnWrite(i) to the field k of the context it was handed.
FanWrites(s, i, k) ==
  /\ s \in 2..len /\ fnInv[s] # <<>> /\ fnInv[s][i] = "pending"
  /\ LET o == InvocationContext(ref[s], i)
     IN /\ heap[o][k] # FnWrite(i)
        /\ heap' = [heap EXCEPT ![o][k] = FnWrite(i)]
  /\ lastw' = [lastw EXCEPT ![k] = FnWrite(i)]
  /\ UNCHANGED <<len, ref, state, payload, onF, onR, pc, how, lateWrites, lateCalls,
                 invoked, raised, stray>>
  /\ UNCHANGED opVars
  /\ UNCHANGED mapVars

\* The invocation of fn for element i settles; Promise.all (if the handler
\* reached it) rejects the handler's promise on the first rejection and
\* fulfils it when every invocation has fulfilled.
FanSettles(s, i, ok) ==
  /\ s \in 2..len /\ fnInv[s] # <<>> /\ fnInv[s][i] = "pending"
  /\ fnInv' = [fnInv EXCEPT ![s][i] = IF ok THEN "fulfilled" ELSE "rejected"]
  /\ IF phase[s] # "all"
       THEN UNCHANGED <<state, payload, raised>>
       ELSE IF ~ok
         THEN /\ Settle(s, "rejected", FnErr(i))
              /\ raised' = [raised EXCEPT ![s] = IF @ = "none" THEN FnErr(i) ELSE @]
         ELSE /\ IF \A j \in Elems : fnInv'[s][j] = "fulfilled"
                   THEN Settle(s, "fulfilled", FanResult(op[s]))
                   ELSE UNCHANGED <<state, payload>>
              /\ UNCHANGED raised
  /\ UNCHANGED <<len, ref, heap, onF, onR, pc, how, lateWrites, lateCalls, invoked,
                 lastw, stray>>
  /\ UNCHANGED <<op, arg, phase, cond, fnCalls, produced, carried, got, unhandled>>
  /\ UNCHANGED <<label, fields, sunk, awaited, views>>
  /\ UNCHANGED mapVars

FanRegisters == \E o \in {"filter", "mapcar"} : RegisterFan(o)

FansBegin == \E s \in Stages, k \in 1..3 : FanBegins(s, k)

FansThrown == \E s \in Stages : FanThrown(s)

FansWrite == \E s \in Stages, i \in Elems : FanWrites(s, i, "y")

FansSettle == \E s \in Stages, i \in Elems, ok \in BOOLEAN : FanSettles(s, i, ok)

\* Chains in which the callbacks given to when, tee, map, filter and mapcar
\* may fail, followed by then / catch stages of the chain's user.
FailRegisters ==
  \E o \in {"then", "when", "tee", "map"}, f \in BOOLEAN, r \in BOOLEAN :
    Register(o, "", f, r)

TeeSinksReject == \E s \in Stages, e \in Errs : TeeSinkRejects(s, e)

FailNext ==
  \/ FailRegisters
  \/ FanRegisters
  \/ Skips
  \/ UsersReturn
  \/ UsersThrow
  \/ WhensBegin
  \/ PredicatesSettle
  \/ PredicatesFail
  \/ WhenFnsSettle
  \/ Tees
  \/ TeesThrow
  \/ TeeSinksReject
  \/ MapsReturn
  \/ MapsThrow
  \/ MapsAwait
  \/ PlainSettle
  \/ FansBegin
  \/ FansThrown
  \/ FansWrite
  \/ FansSettle

InitFail == FanInit /\ MapIdle

SpecFail == InitFail /\ [][FailNext]_vars

\* ------------------------------------------------------------- claim C34
\* The combinators that run a callback of their caller.
CallbackOps == {"when", "tee", "map", "filter", "mapcar"}

\* The reason the callback of the combinator stage s failed with, "none" if it
\* did not fail: what it threw or its awaitable rejected with.
FailedWith(s) ==
  IF raised[s] # "none" THEN raised[s]
  ELSE IF op[s] = "tee" THEN produced[s]
  ELSE IF op[s] = "map" /\ how[s] = "adopted" /\ state[s] = "rejected" THEN produced[s]
  ELSE "none"

\* C34: a failing callback of a combinator (when's predicate or fn, the
\* predicate of filter, the transform of map / mapcar, the sink of tee),
\* whether it throws or the awaitable it returned rejects, makes the future of
\* that stage reject with exactly its reason.
C34_CallbackFailureRejects ==
  \A s \in 2..len : (op[s] \in CallbackOps /\ FailedWith(s) # "none") =>
    (state[s] = "rejected" /\ payload[s] = FailedWith(s))

\* The same for every callback but a sink of tee whose awaitable rejects; and
\* the catch handler after the failed stage is invoked on a context that has
\* every field the failed stage's context has, with the values last written
\* upstream.
C34_ExceptAsyncSink ==
  /\ [](\A s \in 2..len : (op[s] \in CallbackOps /\ raised[s] # "none") =>
          (state[s] = "rejected" /\ payload[s] = raised[s]))
  /\ [][\A s \in 2..len :
          (Invoking(s) /\ op[s - 1] \in CallbackOps /\ raised[s - 1] # "none") =>
            /\ onR[s] /\ state[s - 1] = "rejected"
            /\ \A k \in Keys :
                 /\ Ctx(s - 1)[k] # "absent" => Merged(s)[k] = Ctx(s - 1)[k]
                 /\ lastw[k] # "absent" => Merged(s)[k] = lastw[k]]_vars

\* C34 witness: filter on a chain that began with { x: c1 }: the invocation
\* for element 1 wrote y, the predicate's awaitable for element 2 rejected
\* with e2, the stage rejected with e2, and the catch handler after it ran on
\* a context with x and y.
C34_Witness ==
  /\ len = 3 /\ op[2] = "filter" /\ phase[2] = "all"
  /\ fnInv[2] = <<"pending", "rejected">>
  /\ raised[2] = "e2" /\ state[2] = "rejected" /\ payload[2] = "e2"
  /\ onR[3] /\ invoked[3] = 1 /\ Ctx(3) = [x |-> "c1", y |-> "c1"]

\* C34 witness for when: the predicate failed with e1 and the catch handler
\* after it ran.
C34_WhenWitness ==
  /\ len = 3 /\ op[2] = "when" /\ cond[2] = "none" /\ raised[2] = "e1"
  /\ state[2] = "rejected" /\ payload[2] = "e1" /\ invoked[3] = 1

\* C34 witness for tee: the sink threw e1 and the catch handler after it ran.
C34_TeeWitness ==
  /\ len = 3 /\ op[2] = "tee" /\ sunk[2].calls = 1 /\ raised[2] = "e1"
  /\ state[2] = "rejected" /\ payload[2] = "e1" /\ invoked[3] = 1

\* ------------------------------------------------- two continuations of
\* one future: p.then(h1); p.then(h2)
\* p.then(onFulfilled, onRejected) called a second time on the receiver of
\* the last future: the new future is a sibling of the last one, its context a
\* copy of the same receiver's _context.
ThenSibling(f, r) ==
  /\ len >= 2 /\ len < MaxStages /\ op[len] = "none"
  /\ LET s == len + 1
         p == Receiver(len)
         o == NewContext(ref[p], s)
     IN /\ len' = s
        /\ ref' = [ref EXCEPT ![s] = o]
        /\ heap' = [heap EXCEPT ![o] = heap[ref[p]]]
        /\ onF' = [onF EXCEPT ![s] = f]
        /\ onR' = [onR EXCEPT ![s] = r]
        /\ op' = [op EXCEPT ![s] = "sibling"]
  /\ UNCHANGED <<state, payload, pc, how, lateWrites, lateCalls, invoked, raised,
                 lastw, stray>>
  /\ UNCHANGED <<arg, phase, cond, fnCalls, produced, carried, got, unhandled,
                 obsVars>>
  /\ UNCHANGED mapVars

ThenSiblings == \E f \in BOOLEAN, r \in BOOLEAN : ThenSibling(f, r)

ForkNext ==
  \/ Thens
  \/ ThenSiblings
  \/ Forwards
  \/ Returns
  \/ Throws
  \/ HandleWrites

InitFork == ChainInit /\ MapIdle /\ OpsIdle

SpecFork == InitFork /\ [][ForkNext]_vars

\* ------------------------------------------------------------- claim C35
\* Future t is future s or was made by a chain of then() calls from it.
RECURSIVE DescendsFrom(_, _)
DescendsFrom(t, s) ==
  t = s \/ (t > s /\ DescendsFrom(Receiver(t), s))

\* Futures s and t lie on different branches: neither descends from the other.
Apart(s, t) == ~DescendsFrom(s, t) /\ ~DescendsFrom(t, s)

\* C35: the futures made by two then() calls on one receiver each hold a
\* context object of their own, which starts as a copy of the receiver's
\* context; a step in which a handler on one branch writes its context leaves
\* the contexts of the receiver and of every future on the other branch as
\* they were, so the context a handler is given (the receiver's fields laid
\* over the future's own copy) never holds a field written on the other
\* branch, whatever the order in which the handlers run.
C35_BranchIsolation ==
  /\ [](\A s \in 1..len : \A t \in 1..len : s # t => ref[s] # ref[t])
  /\ [][\A s \in 2..MaxStages :
          /\ (len' = s /\ len = s - 1) => (Ctx(s) = Ctx(Receiver(s)))'
          /\ (s <= len /\ Ctx(s)' # Ctx(s)) =>
               /\ \A t \in 1..len : Apart(s, t) => Ctx(t)' = Ctx(t)
               /\ Ctx(Receiver(s))' = Ctx(Receiver(s))
          /\ (s <= len /\ Invoking(s)) =>
               \A k \in Keys :
                 Merged(s)[k] = IF Ctx(Receiver(s))[k] # "absent"
                                  THEN Ctx(Receiver(s))[k] ELSE Ctx(s)[k]]_vars

\* Both handlers of a fork have run, the first wrote a field the receiver
\* never had, and the second future's context does not hold it.
C35_Witness ==
  /\ len >= 3 /\ op[3] = "sibling"
  /\ invoked[2] = 1 /\ invoked[3] = 1
  /\ Ctx(1)["y"] = "absent" /\ Ctx(2)["y"] = "c1" /\ Ctx(3)["y"] = "absent"

\* ------------------------------------------------------------- claim C36
\* C36: when the handler of a future is about to be invoked, the context it
\* is given has exactly the keys and values of the context its receiver
\* settled with; in particular a key an upstream handler removed is absent
\* from it, also when the chain was registered before the first handler ran.
C36_ExactlyReceiverContext ==
  \A s \in 2..len :
    (Due(s) /\ HasHandler(s)) => Merged(s) = Ctx(Receiver(s))

\* ------------------------------------------ getContext() and toObject()
\* What the underlying promise of a rejected future holds, as a caller with no
\* rejection handler of the library in between receives it: the object
\* { __reason, __context } made by wrappedReject, the context being the
\* future's own.
TaggedRejection(reason, c) ==
  [state |-> "rejected", inner |-> reason, tagged |-> TRUE, context |-> c]

\* A getContext() that hands the context over on rejection too.
GetContextAlways(st, pl, c) ==
  [state |-> "fulfilled", inner |-> "none", tagged |-> FALSE, context |-> c]

\* getContext(): super.then(wrapped => wrapped.__context), with no rejection
\* handler: a rejection of the underlying promise passes through as it is.
GetContextDelivers(st, pl, c) ==
  IF st = "fulfilled"
    THEN [state |-> "fulfilled", inner |-> "none", tagged |-> FALSE, context |-> c]
    ELSE TaggedRejection(pl, c)

\* toObject(): super.then(wrapped => ({ value: wrapped.__value, context:
\* wrapped.__context })), with no rejection handler either.
ToObjectDelivers(st, pl, c) ==
  IF st = "fulfilled"
    THEN [state |-> "fulfilled", inner |-> pl, tagged |-> FALSE, context |-> c]
    ELSE TaggedRejection(pl, c)

\* await p.getContext() on the last future, once it has settled.
GetContext ==
  /\ len >= 1 /\ state[len] # "pending"
  /\ views.context = Nothing
  /\ views' = [views EXCEPT !.context =
                 GetContextDelivers(state[len], payload[len], Ctx(len))]
  /\ UNCHANGED <<op, arg, phase, cond, fnCalls, produced, carried, got, unhandled>>
  /\ UNCHANGED <<label, fields, sunk, awaited, fnInv>>
  /\ UNCHANGED <<chainVars, mapVars>>

\* await p.toObject() on the last future, once it has settled.
ToObject ==
  /\ len >= 1 /\ state[len] # "pending"
  /\ views.object = Nothing
  /\ views' = [views EXCEPT !.object =
                 ToObjectDelivers(state[len], payload[len], Ctx(len))]
  /\ UNCHANGED <<op, arg, phase, cond, fnCalls, produced, carried, got, unhandled>>
  /\ UNCHANGED <<label, fields, sunk, awaited, fnInv>>
  /\ UNCHANGED <<chainVars, mapVars>>

\* The chain grows until its last future is inspected.
ViewRegisters == views = NoViews /\ UserRegisters

ViewNext ==
  \/ ViewRegisters
  \/ Skips
  \/ UsersReturn
  \/ UsersThrow
  \/ GetValue
  \/ GetContext
  \/ ToObject

InitView == OpsInit /\ MapIdle

SpecView == InitView /\ [][ViewNext]_vars

\* ------------------------------------------------------------- claim C37
\* On a rejected future getContext() and toObject() reject with the tagged
\* object that holds the reason and the future's context: this part of C37
\* holds for every reason.
C37_ViewsReject ==
  (len >= 1 /\ state[len] = "rejected") =>
    /\ views.context # Nothing => views.context = TaggedRejection(payload[len], Ctx(len))
    /\ views.object # Nothing => views.object = TaggedRejection(payload[len], Ctx(len))

\* C37: on a rejected future getContext() and toObject() never fulfil, each
\* rejects with the internal tagged payload holding the original reason and
\* the context at failure, whereas getValue() on the same future rejects with
\* the bare reason.
C37_ViewsTaggedValueBare ==
  (len >= 1 /\ state[len] = "rejected") =>
    /\ views.context # Nothing =>
         /\ views.context.state = "rejected" /\ views.context.tagged
         /\ views.context.inner = payload[len]
         /\ views.context.context = Ctx(len)
    /\ views.object # Nothing =>
         /\ views.object.state = "rejected" /\ views.object.tagged
         /\ views.object.inner = payload[len]
         /\ views.object.context = Ctx(len)
    /\ got # Nothing =>
         got.state = "rejected" /\ ~got.tagged /\ got.inner = payload[len]

\* A future rejected with e1 after a handler wrote a field, and all three
\* inspections delivered.
C37_Reached ==
  /\ len >= 2 /\ state[len] = "rejected" /\ payload[len] = "e1"
  /\ Ctx(len)["y"] = "c2"
  /\ views.context # Nothing /\ views.object # Nothing /\ got # Nothing

\* ------------------------------------------------------------- claim C38
\* Future s was made by filter / mapcar and its handler has started fn on the
\* elements of the array.
FannedOut(s) == s \in 2..len /\ op[s] \in {"filter", "mapcar"} /\ fnInv[s] # <<>>

\* C38 as stated: a field written by an invocation of fn is visible to all
\* later stages: once the callback of the stage after a filter / mapcar stage
\* has run, a field the invocations wrote is in that stage's context.
C38_WritesReachLaterStages ==
  \A s \in 2..len :
    (FannedOut(s) /\ s < len /\ pc[s + 1] = "done" /\ Ctx(s)["y"] # "absent") =>
      Ctx(s + 1)["y"] # "absent"

\* C38, amended: the invocations of one filter / mapcar call all work on the
\* context object of the stage, so what that object holds is what was written
\* last in execution order, by whichever invocation; every field it holds
\* when the callback of the next stage runs is handed to that stage, which is
\* every write of the invocations when the filter / mapcar stage fulfils.
C38_SharedContext ==
  /\ [](\A s \in 2..len :
          /\ (FannedOut(s) /\ (s = len \/ pc[s + 1] = "waiting")) =>
               Ctx(s)["y"] = lastw["y"]
          /\ (FannedOut(s) /\ state[s] = "fulfilled" /\ s < len /\ pc[s + 1] = "done"
                /\ Ctx(s)["y"] # "absent") =>
               Ctx(s + 1)["y"] # "absent")
  /\ [][\A s \in 2..len :
          (FannedOut(s) /\ s < len /\ pc[s + 1] = "waiting" /\ pc'[s + 1] = "done") =>
            \A k \in Keys : Ctx(s)[k] # "absent" => Merged(s + 1)[k] = Ctx(s)[k]]_vars

\* Both invocations of a mapcar wrote the same field, the second one last;
\* the stage fulfilled and the next stage's handler ran on a context with the
\* value written last.
C38_Witness ==
  /\ len = 3 /\ FannedOut(2) /\ state[2] = "fulfilled"
  /\ Ctx(2)["y"] = "c1" /\ lastw["y"] = "c1"
  /\ pc[3] = "done" /\ invoked[3] = 1 /\ Ctx(3)["y"] = "c1"

\* --------------------------------------------- filter and mapcar together
ArraysNext == Mapcar \/ MapcarSettles \/ Filter \/ FilterSettles

\* One call of mapcar(fn) or of filter(fn) on one value.
InitArrays ==
  /\ (MapInit /\ mOp = "mapcar") \/ FilterInit
  /\ ChainIdle /\ OpsIdle

SpecArrays == InitArrays /\ [][ArraysNext]_vars

\* ------------------------------------------------------------- claim C39
\* The handler ran on an array and a call of fn threw synchronously: the
\* handler never reached Promise.all.
ThrewInLoop == mPc = "running" /\ IsArray(mInput) /\ fanin = "none"

\* C39: in filter and mapcar, if fn throws synchronously at index k, fn was
\* invoked for the indices 1..k and is never invoked for an index above k,
\* and the stage rejects with that error in the same step, while the
\* invocations started for the indices below k are still pending, and stays
\* so whatever they settle with.
C39_ThrowEndsDispatch ==
  /\ [](ThrewInLoop =>
          LET k == settled[1]
          IN /\ Len(dispatched) = k
             /\ \A j \in 1..Len(dispatched) : dispatched[j] = j
             /\ \A i \in 1..N : i > k => inv[i] = "idle"
             /\ mState = "rejected" /\ mReason = FnReason(k))
  /\ [][(mPc = "ready" /\ ThrewInLoop') =>
          /\ mState' = "rejected"
          /\ \A i \in 1..N : i < settled'[1] => inv'[i] = "pending"]_vars

\* filter's fn threw at the second of three elements: the first invocation
\* is still pending, the third never started, and the stage has rejected.
C39_Witness ==
  /\ mOp = "filter" /\ ThrewInLoop /\ N = 3 /\ settled = <<2>>
  /\ inv = <<"pending", "rejected", "idle">>
  /\ mState = "rejected" /\ mReason = FnReason(2)

\* The same for mapcar, after the first invocation has fulfilled.
C39_MapcarReached ==
  /\ mOp = "mapcar" /\ ThrewInLoop /\ N = 3 /\ settled = <<2, 1>>
  /\ inv = <<"fulfilled", "rejected", "idle">>
  /\ mState = "rejected" /\ mReason = FnReason(2)
====
